---------------------------- MODULE Spec2Model ----------------------------
(***************************************************************************)
(* A state-machine model of felica-dumper's read-orchestration core:       *)
(* the service grouper and the processing-order optimizer, the key table,  *)
(* the card-structure walker, the key-version resolver, the block reader,  *)
(* the authentication handler with the service-group processor and the     *)
(* per-system run loop, and the area-hierarchy builder.                    *)
(*                                                                         *)
(* Every component has its own variables, its own initial condition and    *)
(* its own next-state relation; a component's specification leaves the    *)
(* other components idle.                                                  *)
(***************************************************************************)
EXTENDS Integers, Sequences, FiniteSets, Bags, TLC

VARIABLES
    \* ---- service grouper and processing-order optimizer
    services,          \* the discovery-ordered service codes given to the grouper
    service_groups,    \* group_overlapped_services' result / optimize's input
    no_auth_groups,    \* optimize_service_processing_order's first bucket
    auth_groups,       \* optimize_service_processing_order's second bucket
    gpc,               \* "input" -> "grouped" -> "optimized"
    \* ---- key table (KeyManager)
    csv_file,          \* the key source: Missing, or its rows in file order
    keys_cache,        \* KeyManager._keys_cache: system code -> key map
    km_call,           \* system code of the last load_keys_for_system call, or NoCall
    km_ret,            \* the map the last call returned
    km_ret_is_cache,   \* the returned object is the cache's own map
    km_read,           \* the last call opened the key source
    km_raised,         \* the last call let an exception escape
    km_warning,        \* what the last call printed
    km_source,         \* history: the key source as the last call found it
    km_outcome,        \* history: system code -> "ok" / "failed", its latest call
    km_before,         \* history: km_outcome before the last call
    km_loaded_before,  \* history: keys_cache before the last call
    \* ---- card-structure walker (TagReader.discover_areas_and_services)
    directory,         \* the card: its answer to search_service_code(i) at i + 1
    directory_rest,    \* the card: its answer at every index past `directory`
    service_index,     \* the loop variable
    areas,             \* the (start, end) pairs collected so far
    found_services,    \* the service codes collected so far (`services`)
    dpc,               \* "idle", "loop", "done"
    disc_queries,      \* history: number of search_service_code calls made
    disc_last,         \* history: index of the latest search_service_code call
    disc_none_seen,    \* history: some call has returned None
    disc_after_none,   \* history: a call was made after one had returned None
    \* ---- key-version resolver (TagReader._process_codes_in_batches)
    kv_code_type,      \* "area" or "service" (code_type)
    kv_codes,          \* the codes to resolve (codes)
    kv_i,              \* the loop variable i: offset of the next chunk
    kv_results,        \* results: code -> key-version entry
    kv_calls,          \* history: the request_service_v2 / request_service calls
    kv_outcomes,       \* history: per chunk, how its v2 and v1 query ended
    kv_warnings,       \* the batch numbers named in printed warnings
    kvpc,              \* "idle", "loop", "done"
    \* ---- block reader (TagReader.read_blocks_*)
    rd_mode,           \* "plain" or "authenticated": which read function is called
    rd_target,         \* its service_code / service_index argument
    rd_max_blocks,     \* its max_blocks argument
    rd_card,           \* the card's behaviour: full blocks, then how reading ends
    rd_ret,            \* what the call returned: output_lines, block_count, ...
    rdpc,              \* "idle", "call", "done"
    \* ---- per-system run loop (FelicaDumper.process_tag, ServiceProcessor)
    run_services,      \* the discovery-ordered service codes of the system
    run_areas,         \* the discovered areas passed to every group
    run_keys,          \* the key table passed to every group
    run_no_auth,       \* no_auth_groups of this run
    run_auth,          \* auth_groups of this run
    run_done,          \* number of groups the two loops have gone through
    run_results,       \* `results`: the ServiceResult list of the run
    run_log,           \* history: the card / key primitives called, in order
    run_raised,        \* an exception escaped process_service_group
    runpc,             \* "idle", "loop", "done"
    \* ---- area-hierarchy builder (TextOutputManager)
    h_areas,           \* the areas given to _build_area_hierarchy
    h_groups,          \* the service groups given to _assign_service_groups_to_areas
    area_nodes,        \* area -> [children, groups, parent]
    root_areas,        \* the areas without parent, sorted
    unassigned_groups, \* the groups no area contains
    hpc,               \* "idle", "input", "built", "assigned"
    \* ---- AuthenticationHandler.requires_authentication
    ra_code,           \* the service code asked about
    ra_ret,            \* the answer
    rapc               \* "idle", "call", "done"

groupVars == <<services, service_groups, no_auth_groups, auth_groups, gpc>>

keyVars == <<csv_file, keys_cache, km_call, km_ret, km_ret_is_cache, km_read,
             km_raised, km_warning, km_source, km_outcome, km_before,
             km_loaded_before>>

discVars == <<directory, directory_rest, service_index, areas, found_services, dpc,
              disc_queries, disc_last, disc_none_seen, disc_after_none>>

kvVars == <<kv_code_type, kv_codes, kv_i, kv_results, kv_calls, kv_outcomes,
            kv_warnings, kvpc>>

readVars == <<rd_mode, rd_target, rd_max_blocks, rd_card, rd_ret, rdpc>>

runVars == <<run_services, run_areas, run_keys, run_no_auth, run_auth, run_done,
             run_results, run_log, run_raised, runpc>>

hierVars == <<h_areas, h_groups, area_nodes, root_areas, unassigned_groups, hpc>>

raVars == <<ra_code, ra_ret, rapc>>

vars == <<groupVars, keyVars, discVars, kvVars, readVars, runVars, hierVars,
          raVars>>

\* What each component's steps leave alone.
notGroupVars == <<keyVars, discVars, kvVars, readVars, runVars, hierVars, raVars>>
notKeyVars == <<groupVars, discVars, kvVars, readVars, runVars, hierVars, raVars>>
notDiscVars == <<groupVars, keyVars, kvVars, readVars, runVars, hierVars, raVars>>
notKvVars == <<groupVars, keyVars, discVars, readVars, runVars, hierVars, raVars>>
notReadVars == <<groupVars, keyVars, discVars, kvVars, runVars, hierVars, raVars>>
notRunVars == <<groupVars, keyVars, discVars, kvVars, readVars, hierVars, raVars>>
notHierVars == <<groupVars, keyVars, discVars, kvVars, readVars, runVars, raVars>>
notRaVars == <<groupVars, keyVars, discVars, kvVars, readVars, runVars, hierVars>>

(***************************************************************************)
(* Helpers                                                                 *)
(***************************************************************************)
\* Python's x >> k on a non-negative integer.
Shr(x, k) == x \div (2 ^ k)

Range(s) == {s[i] : i \in DOMAIN s}

\* All sequences over S of length 0..n.
SeqsUpTo(S, n) == UNION {[1..k -> S] : k \in 0..n}

RECURSIVE Flatten(_)
Flatten(gs) == IF gs = <<>> THEN <<>> ELSE Head(gs) \o Flatten(Tail(gs))

\* s is a subsequence of t: s is t with some elements left out.
RECURSIVE IsSubsequence(_, _)
IsSubsequence(s, t) ==
    IF s = <<>> THEN TRUE
    ELSE IF t = <<>> THEN FALSE
    ELSE IF Head(s) = Head(t) THEN IsSubsequence(Tail(s), Tail(t))
    ELSE IsSubsequence(s, Tail(t))

RECURSIVE BagOfSeq(_)
BagOfSeq(s) == IF s = <<>> THEN EmptyBag ELSE SetToBag({Head(s)}) (+) BagOfSeq(Tail(s))

(***************************************************************************)
(* Bounds and input domains                                                *)
(***************************************************************************)
\* Longest service list given to the grouper.
MaxServices == 3
\* Longest list of groups given to the optimizer directly.
MaxGroups == 2

\* Service codes: 0x0008.. are random services of number 0, 0x000C a second
\* random service in the same 16-code window, 0x0010.. purse services,
\* 0x0100.. codes with bit 8 set.
ServiceCodes == {8, 9, 12, 16, 17, 23, 256, 257, 264}

\* Groups handed to the optimizer as a library call: any non-empty groups.
DirectGroups == SeqsUpTo({8, 9, 16}, 2) \ {<<>>}

\* Most rows in the key source.
MaxRows == 2

\* Most directory indices the card answers with something it chose; from
\* there on it answers None.
MaxDir == 4

\* The number of indices below the discovery limit at which the walk in
\* front of a card that never answers None is entered.
MaxTail == 128

\* Faulty variant: 0x1000 for 0x10000.
DISCOVERY_LIMIT_DroppedDigit == 16 * 256

\* tag_reader.py: `if service_index >= 0x10000: break`
DISCOVERY_LIMIT == 65536

\* Longest list of codes given to the key-version resolver.
MaxCodes == 65

\* models/constants.py
\* Faulty variant: a batch holds one code more.
MAX_BATCH_SIZE_PlusOne == 32 + 1

MAX_BATCH_SIZE == 32
SYSTEM_KEY_NODE_ID == 65535
ROOT_AREA_KEY_NODE_ID == 0
AREA_KEY_THRESHOLD == 4096

\* A field whose text does not parse (int(text, 16), bytes.fromhex(text) or
\* int(text) raises ValueError).
Bad == 0 - 1
\* The key source does not exist (open raises FileNotFoundError).
Missing == [exists |-> FALSE, rows |-> <<>>]
\* No call has been made yet.
NoCall == 0 - 1

SystemCodes == {3, 5}
\* A row of the source after csv.DictReader: the parsed value of each field,
\* or Bad.  `payload` stands for the key and version columns together: the
\* version number, or Bad when either text does not parse.
KeyRows == [system_code : SystemCodes \cup {Bad},
            node : {SYSTEM_KEY_NODE_ID, 8, 4104} \cup {Bad},
            payload : {1, 2} \cup {Bad}]
KeyFiles == {Missing} \cup
            {[exists |-> TRUE, rows |-> rows] : rows \in SeqsUpTo(KeyRows, MaxRows)}

(***************************************************************************)
(* Service grouper: ServiceProcessor.group_overlapped_services             *)
(***************************************************************************)
\* Faulty variant: the random/cyclic comparison of (code >> 2) is left out.
OverlapsIgnoringAccessBits(service, last_service) ==
    Shr(service, 4) = Shr(last_service, 4)

\* Faulty variant: every code overlaps the open group.
OverlapsAlways(service, last_service) == TRUE

\* The condition under which `service` is appended to the open group whose
\* last member is last_service.
Overlaps(service, last_service) ==
    IF Shr(service, 4) = Shr(last_service, 4)
    THEN IF Shr(service, 4) % 2 = 1          \* service >> 4 & 1: purse service
         THEN TRUE
         ELSE Shr(service, 2) = Shr(last_service, 2)
    ELSE FALSE

\* One iteration of the loop over services; st = [groups, cur].
GroupLoopBody(st, service) ==
    IF st.cur = <<>>
    THEN [groups |-> st.groups, cur |-> <<service>>]
    ELSE LET last_service == st.cur[Len(st.cur)] IN
         IF Overlaps(service, last_service)
         THEN [groups |-> st.groups, cur |-> Append(st.cur, service)]
         ELSE [groups |-> Append(st.groups, st.cur), cur |-> <<service>>]

RECURSIVE GroupLoop(_, _)
GroupLoop(st, svcs) ==
    IF svcs = <<>> THEN st ELSE GroupLoop(GroupLoopBody(st, Head(svcs)), Tail(svcs))

\* Faulty variant: the open group is not flushed after the loop.
group_overlapped_services_no_flush(svcs) ==
    GroupLoop([groups |-> <<>>, cur |-> <<>>], svcs).groups

group_overlapped_services(svcs) ==
    LET st == GroupLoop([groups |-> <<>>, cur |-> <<>>], svcs) IN
    IF st.cur # <<>> THEN Append(st.groups, st.cur) ELSE st.groups

(***************************************************************************)
(* Processing-order optimizer: optimize_service_processing_order           *)
(***************************************************************************)
\* Faulty variant: all() instead of any().
has_no_auth_all(service_group) ==
    \A i \in DOMAIN service_group : service_group[i] % 2 = 1

\* any(sc & 1 for sc in service_group)
has_no_auth(service_group) ==
    \E i \in DOMAIN service_group : service_group[i] % 2 = 1

\* Faulty variant: a group is inserted at the front of its bucket.
OptimizeLoopBodyPrepend(st, service_group) ==
    IF has_no_auth(service_group)
    THEN [no_auth |-> <<service_group>> \o st.no_auth, auth |-> st.auth]
    ELSE [no_auth |-> st.no_auth, auth |-> <<service_group>> \o st.auth]

OptimizeLoopBody(st, service_group) ==
    IF has_no_auth(service_group)
    THEN [no_auth |-> Append(st.no_auth, service_group), auth |-> st.auth]
    ELSE [no_auth |-> st.no_auth, auth |-> Append(st.auth, service_group)]

RECURSIVE OptimizeLoop(_, _)
OptimizeLoop(st, gs) ==
    IF gs = <<>> THEN st ELSE OptimizeLoop(OptimizeLoopBody(st, Head(gs)), Tail(gs))

optimize_service_processing_order(gs) ==
    OptimizeLoop([no_auth |-> <<>>, auth |-> <<>>], gs)

(***************************************************************************)
(* Grouper / optimizer: state machine                                      *)
(***************************************************************************)
GroupIdle ==
    /\ services = <<>>
    /\ service_groups = <<>>
    /\ no_auth_groups = <<>>
    /\ auth_groups = <<>>
    /\ gpc = "idle"

GroupInit ==
    /\ services \in SeqsUpTo(ServiceCodes, MaxServices)
    /\ service_groups = <<>>
    /\ no_auth_groups = <<>>
    /\ auth_groups = <<>>
    /\ gpc = "input"

\* process_tag: service_groups = group_overlapped_services(services)
GroupServices ==
    /\ gpc = "input"
    /\ service_groups' = group_overlapped_services(services)
    /\ gpc' = "grouped"
    /\ UNCHANGED <<services, no_auth_groups, auth_groups, notGroupVars>>

\* process_tag: no_auth_groups, auth_groups = optimize(service_groups)
OptimizeGroups ==
    /\ gpc = "grouped"
    /\ LET r == optimize_service_processing_order(service_groups) IN
         /\ no_auth_groups' = r.no_auth
         /\ auth_groups' = r.auth
    /\ gpc' = "optimized"
    /\ UNCHANGED <<services, service_groups, notGroupVars>>

\* The helper called on a list of groups that did not come from the grouper.
OptimizeDirect ==
    /\ gpc = "input"
    /\ services = <<>>
    /\ \E gs \in SeqsUpTo(DirectGroups, MaxGroups) :
         /\ service_groups' = gs
         /\ LET r == optimize_service_processing_order(gs) IN
              /\ no_auth_groups' = r.no_auth
              /\ auth_groups' = r.auth
    /\ gpc' = "optimized"
    /\ UNCHANGED <<services, notGroupVars>>

GroupNext ==
    \/ GroupServices
    \/ OptimizeGroups
    \/ OptimizeDirect

(***************************************************************************)
(* Grouper / optimizer: properties                                         *)
(***************************************************************************)
\* The index of the group that holds position pos of the flattened groups.
RECURSIVE GroupIndexAt(_, _)
GroupIndexAt(gs, pos) ==
    IF pos <= Len(Head(gs)) THEN 1
    ELSE 1 + GroupIndexAt(Tail(gs), pos - Len(Head(gs)))

\* A code is purse-type when bit 4 of the code is set (bit 0 of code >> 4).
IsPurseCode(code) == (code \div 16) % 2 = 1

\* Purse-type read literally from "bit 4 of the shifted value": bit 4 of
\* (code >> 4), which is bit 8 of the code.
IsPurseCodeLiteral(code) == ((code \div 16) \div 16) % 2 = 1

\* C1: concatenating the groups returned by group_overlapped_services in
\* output order yields exactly the input list.
C1_GroupingLossless ==
    gpc = "grouped" => Flatten(service_groups) = services

C1_Witness ==
    /\ gpc = "grouped"
    /\ Len(services) = 3
    /\ Len(service_groups) = 2

\* C2: every group is non-empty, its members agree on (code >> 4), and the
\* members of a non-purse group also agree on (code >> 2); the empty list
\* gives no group and a one-element list gives one singleton group.
C2_GroupInvariant ==
    gpc = "grouped" =>
      /\ \A k \in DOMAIN service_groups :
           LET g == service_groups[k] IN
             /\ g # <<>>
             /\ \A i, j \in DOMAIN g : g[i] \div 16 = g[j] \div 16
             /\ (\A i \in DOMAIN g : ~IsPurseCode(g[i])) =>
                   \A i, j \in DOMAIN g : g[i] \div 4 = g[j] \div 4
      /\ (services = <<>> => service_groups = <<>>)
      /\ (Len(services) = 1 => service_groups = <<services>>)

C2_Witness ==
    /\ gpc = "grouped"
    /\ services = <<8, 9, 12>>
    /\ service_groups = << <<8, 9>>, <<12>> >>

\* C3 (as amended): two codes adjacent in the input are in the same group
\* iff their (code >> 4) are equal and either bit 4 of the code (bit 0 of
\* the shifted value) is set or their (code >> 2) are equal; otherwise the
\* second code starts the next group.  [0x0100, 0x0101, 0x0108] is grouped
\* as [[0x0100, 0x0101], [0x0108]].
C3_AdjacentRule ==
    gpc = "grouped" =>
      /\ \A i \in 1..(Len(services) - 1) :
           LET a == services[i]
               b == services[i + 1]
               same == GroupIndexAt(service_groups, i + 1) = GroupIndexAt(service_groups, i)
               next == GroupIndexAt(service_groups, i + 1) = GroupIndexAt(service_groups, i) + 1
           IN /\ same <=> (b \div 16 = a \div 16 /\ (IsPurseCode(b) \/ b \div 4 = a \div 4))
              /\ ~same => next
      /\ (services = <<256, 257, 264>> =>
            service_groups = << <<256, 257>>, <<264>> >>)

C3_Witness ==
    /\ gpc = "grouped"
    /\ services = <<16, 23, 8>>
    /\ service_groups = << <<16, 23>>, <<8>> >>

\* C3 as stated: the purse test reads bit 4 of the shifted value.
C3_AsStated ==
    gpc = "grouped" =>
      /\ \A i \in 1..(Len(services) - 1) :
           LET a == services[i]
               b == services[i + 1]
               same == GroupIndexAt(service_groups, i + 1) = GroupIndexAt(service_groups, i)
           IN same <=> (b \div 16 = a \div 16 /\ (IsPurseCodeLiteral(b) \/ b \div 4 = a \div 4))
      /\ (services = <<256, 257, 264>> =>
            service_groups = << <<256, 257>>, <<264>> >>)

\* C4: the two buckets together hold every input group exactly once, and
\* each bucket keeps the input's relative order.
C4_StablePartition ==
    gpc = "optimized" =>
      /\ Len(no_auth_groups) + Len(auth_groups) = Len(service_groups)
      /\ BagOfSeq(no_auth_groups) (+) BagOfSeq(auth_groups) = BagOfSeq(service_groups)
      /\ Range(no_auth_groups) \cap Range(auth_groups) = {}
      /\ IsSubsequence(no_auth_groups, service_groups)
      /\ IsSubsequence(auth_groups, service_groups)

C4_Witness ==
    /\ gpc = "optimized"
    /\ Len(service_groups) = 3
    /\ Len(no_auth_groups) = 2
    /\ no_auth_groups[1] # no_auth_groups[2]
    /\ Len(auth_groups) = 1

\* C5: a group is in no_auth iff some member has bit 0 set, in auth
\* otherwise; when every service has LSB = 1, auth is empty.
C5_BucketRule ==
    gpc = "optimized" =>
      /\ \A k \in DOMAIN service_groups :
           LET g == service_groups[k]
               anyOdd == \E i \in DOMAIN g : g[i] % 2 = 1
           IN /\ anyOdd <=> g \in Range(no_auth_groups)
              /\ ~anyOdd <=> g \in Range(auth_groups)
      /\ (\A k \in DOMAIN service_groups : \A i \in DOMAIN service_groups[k] :
             service_groups[k][i] % 2 = 1)
           => (auth_groups = <<>> /\ no_auth_groups = service_groups)

C5_Witness ==
    /\ gpc = "optimized"
    /\ <<8, 9>> \in Range(no_auth_groups)
    /\ <<16>> \in Range(auth_groups)

(***************************************************************************)
(* Key table: KeyManager                                                   *)
(***************************************************************************)
EmptyMap == <<>>

\* d with d[k] = v, as Python's d[k] = v.
MapSet(d, k, v) == [x \in DOMAIN d \cup {k} |-> IF x = k THEN v ELSE d[x]]

_determine_key_type(node_id) ==
    IF node_id = SYSTEM_KEY_NODE_ID THEN "system"
    ELSE IF node_id = ROOT_AREA_KEY_NODE_ID THEN "area"
    ELSE IF node_id < AREA_KEY_THRESHOLD THEN "area"
    ELSE "service"

\* Faulty variant: a row that does not parse is skipped and loading goes on.
ReadRowSkippingBad(keys, row, system_code) ==
    IF row.system_code = Bad THEN [ok |-> TRUE, keys |-> keys]
    ELSE IF row.system_code # system_code THEN [ok |-> TRUE, keys |-> keys]
    ELSE IF row.node = Bad \/ row.payload = Bad THEN [ok |-> TRUE, keys |-> keys]
    ELSE [ok |-> TRUE,
          keys |-> MapSet(keys, row.node,
                          [node_id |-> row.node, version |-> row.payload,
                           key_type |-> _determine_key_type(row.node)])]

\* The body of `for row in reader`: ok = FALSE when a conversion raises.
ReadRow(keys, row, system_code) ==
    IF row.system_code = Bad                       \* int(row["system_code"], 16)
    THEN [ok |-> FALSE, keys |-> keys]
    ELSE IF row.system_code # system_code          \* continue
    THEN [ok |-> TRUE, keys |-> keys]
    ELSE IF row.node = Bad                         \* int(row["node"], 16)
    THEN [ok |-> FALSE, keys |-> keys]
    ELSE IF row.payload = Bad                      \* bytes.fromhex / int(version)
    THEN [ok |-> FALSE, keys |-> keys]
    ELSE [ok |-> TRUE,
          keys |-> MapSet(keys, row.node,
                          [node_id |-> row.node, version |-> row.payload,
                           key_type |-> _determine_key_type(row.node)])]

RECURSIVE ReadRows(_, _, _)
ReadRows(keys, rows, system_code) ==
    IF rows = <<>> THEN [ok |-> TRUE, keys |-> keys]
    ELSE LET r == ReadRow(keys, Head(rows), system_code) IN
         IF r.ok THEN ReadRows(r.keys, Tail(rows), system_code) ELSE r

\* Faulty variant: the cache is never consulted.
load_keys_for_system_uncached(cache, file, system_code) ==
    IF file = Missing
    THEN [ret |-> EmptyMap, cache |-> cache, is_cache |-> FALSE, read |-> TRUE,
          raised |-> FALSE, warning |-> "not found"]
    ELSE LET r == ReadRows(EmptyMap, file.rows, system_code) IN
         IF r.ok
         THEN [ret |-> r.keys, cache |-> MapSet(cache, system_code, r.keys),
               is_cache |-> TRUE, read |-> TRUE, raised |-> FALSE,
               warning |-> "none"]
         ELSE [ret |-> EmptyMap, cache |-> cache, is_cache |-> FALSE,
               read |-> TRUE, raised |-> FALSE, warning |-> "error reading"]

\* load_keys_for_system(system_code) on a KeyManager whose cache is `cache`
\* while the key source is `file`: what it returns, the cache afterwards,
\* whether the source was opened, and what was printed.
load_keys_for_system(cache, file, system_code) ==
    IF system_code \in DOMAIN cache
    THEN [ret |-> cache[system_code], cache |-> cache, is_cache |-> TRUE,
          read |-> FALSE, raised |-> FALSE, warning |-> "none"]
    ELSE IF file = Missing                          \* except FileNotFoundError
    THEN [ret |-> EmptyMap, cache |-> cache, is_cache |-> FALSE, read |-> TRUE,
          raised |-> FALSE, warning |-> "not found"]
    ELSE LET r == ReadRows(EmptyMap, file.rows, system_code) IN
         IF r.ok
         THEN [ret |-> r.keys, cache |-> MapSet(cache, system_code, r.keys),
               is_cache |-> TRUE, read |-> TRUE, raised |-> FALSE,
               warning |-> "none"]
         ELSE                                       \* except Exception
              [ret |-> EmptyMap, cache |-> cache, is_cache |-> FALSE,
               read |-> TRUE, raised |-> FALSE, warning |-> "error reading"]

KeyIdle ==
    /\ csv_file = Missing
    /\ keys_cache = EmptyMap
    /\ km_call = NoCall
    /\ km_ret = EmptyMap
    /\ km_ret_is_cache = FALSE
    /\ km_read = FALSE
    /\ km_raised = FALSE
    /\ km_warning = "none"
    /\ km_source = Missing
    /\ km_outcome = EmptyMap
    /\ km_before = EmptyMap
    /\ km_loaded_before = EmptyMap

\* KeyManager.__init__, with any key source behind csv_file.
KeyInit ==
    /\ csv_file \in KeyFiles
    /\ keys_cache = EmptyMap
    /\ km_call = NoCall
    /\ km_ret = EmptyMap
    /\ km_ret_is_cache = FALSE
    /\ km_read = FALSE
    /\ km_raised = FALSE
    /\ km_warning = "none"
    /\ km_source = Missing
    /\ km_outcome = EmptyMap
    /\ km_before = EmptyMap
    /\ km_loaded_before = EmptyMap

\* A call of load_keys_for_system (directly, or through get_key,
\* has_system_key, has_service_key, get_area_keys_for_service).
LoadKeys ==
    \E system_code \in SystemCodes :
       LET r == load_keys_for_system(keys_cache, csv_file, system_code) IN
         /\ km_call' = system_code
         /\ km_loaded_before' = keys_cache
         /\ km_source' = csv_file
         /\ km_before' = km_outcome
         /\ km_outcome' = MapSet(km_outcome, system_code,
                                 IF r.warning = "none" THEN "ok" ELSE "failed")
         /\ keys_cache' = r.cache
         /\ km_ret' = r.ret
         /\ km_ret_is_cache' = r.is_cache
         /\ km_read' = r.read
         /\ km_raised' = r.raised
         /\ km_warning' = r.warning
         /\ UNCHANGED <<csv_file, notKeyVars>>

\* The environment removes the key source between two calls.
RemoveSource ==
    /\ csv_file # Missing
    /\ csv_file' = Missing
    /\ UNCHANGED <<keys_cache, km_call, km_ret, km_ret_is_cache, km_read,
                   km_raised, km_warning, km_source, km_outcome, km_before,
                   km_loaded_before, notKeyVars>>

KeyNext ==
    \/ LoadKeys
    \/ RemoveSource

(***************************************************************************)
(* Key table: properties                                                   *)
(***************************************************************************)
\* A row that stops the load for system code sc: its system_code does not
\* parse, or it is a row of sc whose node, key or version does not parse.
RowStopsLoad(row, sc) ==
    \/ row.system_code = Bad
    \/ row.system_code = sc /\ (row.node = Bad \/ row.payload = Bad)

\* A row with a column that does not parse.
RowMalformed(row) ==
    row.system_code = Bad \/ row.node = Bad \/ row.payload = Bad

\* The table of system code sc in a well-formed source: the version of the
\* last row of each node.
FilteredVersions(rows, sc) ==
    LET mine == {i \in DOMAIN rows : rows[i].system_code = sc} IN
    [n \in {rows[i].node : i \in mine} |->
        LET last == CHOOSE i \in mine :
                      /\ rows[i].node = n
                      /\ \A j \in mine : rows[j].node = n => j <= i
        IN rows[last].payload]

\* The map holds exactly the nodes and versions of `versions`.
HoldsVersions(keys, versions) ==
    /\ DOMAIN keys = DOMAIN versions
    /\ \A n \in DOMAIN keys : keys[n].node_id = n /\ keys[n].version = versions[n]

\* What a call that reads `source` for system code sc has to return.
ReadResultIs(ret, source, sc) ==
    IF ~source.exists \/ \E i \in DOMAIN source.rows : RowStopsLoad(source.rows[i], sc)
    THEN DOMAIN ret = {}
    ELSE HoldsVersions(ret, FilteredVersions(source.rows, sc))

\* C6 (as amended): a repeated call for a system code whose earlier load
\* succeeded returns the identical cached map without opening the source
\* and leaves the cache as it was; a call for a code not yet requested, or
\* whose earlier load failed, opens the source and filters it by that code,
\* leaving the maps cached for the other codes as they were.
C6_CacheAfterSuccess ==
    km_call # NoCall =>
      /\ (km_call \in DOMAIN km_before /\ km_before[km_call] = "ok") =>
            /\ ~km_read
            /\ km_ret_is_cache
            /\ km_call \in DOMAIN km_loaded_before
            /\ km_ret = km_loaded_before[km_call]
            /\ keys_cache = km_loaded_before
      /\ (km_call \notin DOMAIN km_before \/ km_before[km_call] = "failed") =>
            /\ km_read
            /\ ReadResultIs(km_ret, km_source, km_call)
            /\ \A c \in DOMAIN km_loaded_before :
                  c \in DOMAIN keys_cache /\ keys_cache[c] = km_loaded_before[c]

C6_Witness ==
    /\ km_call = 3
    /\ 3 \in DOMAIN km_before
    /\ km_before[3] = "ok"
    /\ 5 \in DOMAIN km_before
    /\ DOMAIN km_ret # {}
    /\ ~km_read
    /\ ~csv_file.exists

\* C6 as stated: every repeated call is served from the cache without
\* opening the source, whatever the outcome of the first call was.
C6_AsStated ==
    km_call # NoCall =>
      /\ km_call \in DOMAIN km_before => (~km_read /\ km_ret_is_cache)
      /\ km_call \notin DOMAIN km_before =>
            (km_read /\ ReadResultIs(km_ret, km_source, km_call))

\* C7 (as amended): load_keys_for_system never raises; a call that opens a
\* missing source returns an empty map; a call that opens a source with a
\* row whose system_code does not parse, or a row of the requested system
\* whose node, key or version does not parse, returns an empty map whatever
\* rows came before it and caches nothing; rows of other systems are
\* filtered out before their other columns are parsed, so a call that meets
\* no such row returns the requested system's table.
C7_SoftFailure ==
    km_call # NoCall =>
      /\ ~km_raised
      /\ (km_read /\ ~km_source.exists) =>
            (DOMAIN km_ret = {} /\ km_warning = "not found")
      /\ (km_read /\ km_source.exists) =>
            IF \E i \in DOMAIN km_source.rows : RowStopsLoad(km_source.rows[i], km_call)
            THEN /\ DOMAIN km_ret = {}
                 /\ km_warning = "error reading"
                 /\ km_call \notin DOMAIN keys_cache
            ELSE /\ HoldsVersions(km_ret, FilteredVersions(km_source.rows, km_call))
                 /\ km_warning = "none"

C7_Witness ==
    /\ km_call = 5
    /\ km_read
    /\ km_source.exists
    /\ Len(km_source.rows) = 2
    /\ km_source.rows[1].system_code = 5
    /\ ~RowMalformed(km_source.rows[1])
    /\ km_source.rows[2].system_code = 5
    /\ km_source.rows[2].node = Bad
    /\ DOMAIN km_ret = {}

\* C7 as stated: a missing source gives an empty map, and so does any
\* malformed row anywhere in the source.
C7_AsStated ==
    km_call # NoCall =>
      /\ ~km_raised
      /\ ~km_source.exists => DOMAIN km_ret = {}
      /\ (km_source.exists /\ \E i \in DOMAIN km_source.rows : RowMalformed(km_source.rows[i]))
            => DOMAIN km_ret = {}

(***************************************************************************)
(* Card-structure walker: TagReader.discover_areas_and_services            *)
(***************************************************************************)
\* What tag.search_service_code returns: None, a 1-tuple (a service code)
\* or a 2-tuple (an area's first and last code).
NoneResponse == [len |-> 0, a |-> 0, b |-> 0]
ServiceResponse(code) == [len |-> 1, a |-> code, b |-> 0]
AreaResponse(start, end) == [len |-> 2, a |-> start, b |-> end]
IsNone(resp) == resp.len = 0

DirectoryResponses ==
    {NoneResponse}
    \cup {ServiceResponse(c) : c \in {8, 9, 16}}
    \cup {AreaResponse(0, 255), AreaResponse(16, 32)}

\* The card's answer at an index: past the listed directory the card gives
\* the same answer `rest` at every index, None for a card whose directory ends.
search_service_code(dir, rest, index) ==
    IF index + 1 \in DOMAIN dir THEN dir[index + 1] ELSE rest

\* Faulty variant: a None answer is skipped and the walk goes on.
DiscoverLoopBodySkippingNone(st, area_or_service) ==
    IF IsNone(area_or_service)
    THEN [st EXCEPT !.index = st.index + 1]
    ELSE IF area_or_service.len = 1
    THEN [st EXCEPT !.services = Append(st.services, area_or_service.a),
                    !.index = st.index + 1]
    ELSE [st EXCEPT !.areas = Append(st.areas, <<area_or_service.a, area_or_service.b>>),
                    !.index = st.index + 1]

\* The loop body after the call of search_service_code;
\* st = [index, areas, services, done].
DiscoverLoopBody(st, area_or_service) ==
    IF IsNone(area_or_service)
    THEN [st EXCEPT !.done = TRUE]                                   \* break
    ELSE IF area_or_service.len = 1
    THEN [st EXCEPT !.services = Append(st.services, area_or_service.a),
                    !.index = st.index + 1]
    ELSE IF area_or_service.len = 2
    THEN [st EXCEPT !.areas = Append(st.areas, <<area_or_service.a, area_or_service.b>>),
                    !.index = st.index + 1]
    ELSE [st EXCEPT !.index = st.index + 1]

DiscIdle ==
    /\ directory = <<>>
    /\ directory_rest = NoneResponse
    /\ service_index = 0
    /\ areas = <<>>
    /\ found_services = <<>>
    /\ dpc = "idle"
    /\ disc_queries = 0
    /\ disc_last = 0
    /\ disc_none_seen = FALSE
    /\ disc_after_none = FALSE

\* Entry of discover_areas_and_services, in front of any card.
DiscInit ==
    /\ directory \in SeqsUpTo(DirectoryResponses, MaxDir)
    /\ directory_rest = NoneResponse
    /\ service_index = 0
    /\ areas = <<>>
    /\ found_services = <<>>
    /\ dpc = "loop"
    /\ disc_queries = 0
    /\ disc_last = 0
    /\ disc_none_seen = FALSE
    /\ disc_after_none = FALSE

\* The walk in front of a card that never answers None, but the same
\* service at every index.  Such a walk is one chain of
\* states, the k-th holding the k answers received so far; it is entered
\* here at each of its last MaxTail indices.
EndlessStarts == (DISCOVERY_LIMIT - MaxTail)..(DISCOVERY_LIMIT - 1)

DiscEndlessInit ==
    /\ directory = <<>>
    /\ directory_rest = ServiceResponse(8)
    /\ service_index \in EndlessStarts
    /\ areas = <<>>
    /\ found_services = [i \in 1..service_index |-> directory_rest.a]
    /\ dpc = "loop"
    /\ disc_queries = service_index
    /\ disc_last = service_index - 1
    /\ disc_none_seen = FALSE
    /\ disc_after_none = FALSE

\* One iteration of `for service_index in itertools.count()`: the limit
\* check, then one call of search_service_code and what follows it.
DiscoverStep ==
    /\ dpc = "loop"
    /\ IF service_index >= DISCOVERY_LIMIT
       THEN /\ dpc' = "done"                                         \* break
            /\ UNCHANGED <<service_index, areas, found_services, disc_queries,
                           disc_last, disc_none_seen, disc_after_none>>
       ELSE LET resp == search_service_code(directory, directory_rest, service_index)
                st == DiscoverLoopBody([index |-> service_index, areas |-> areas,
                                        services |-> found_services, done |-> FALSE],
                                       resp)
            IN /\ disc_queries' = disc_queries + 1
               /\ disc_last' = service_index
               /\ disc_after_none' = (disc_after_none \/ disc_none_seen)
               /\ disc_none_seen' = (disc_none_seen \/ IsNone(resp))
               /\ service_index' = st.index
               /\ areas' = st.areas
               /\ found_services' = st.services
               /\ dpc' = IF st.done THEN "done" ELSE "loop"
    /\ UNCHANGED <<directory, directory_rest, notDiscVars>>

DiscNext == DiscoverStep

(***************************************************************************)
(* Card-structure walker: properties                                       *)
(***************************************************************************)
\* The number of answers in front of the card's first None.
RECURSIVE AnswersBeforeNone(_)
AnswersBeforeNone(dir) ==
    IF dir = <<>> \/ Head(dir).len = 0 THEN 0 ELSE 1 + AnswersBeforeNone(Tail(dir))

RECURSIVE SingleCodes(_)
SingleCodes(answers) ==
    IF answers = <<>> THEN <<>>
    ELSE IF Head(answers).len = 1 THEN <<Head(answers).a>> \o SingleCodes(Tail(answers))
    ELSE SingleCodes(Tail(answers))

RECURSIVE CodePairs(_)
CodePairs(answers) ==
    IF answers = <<>> THEN <<>>
    ELSE IF Head(answers).len = 2
         THEN << <<Head(answers).a, Head(answers).b>> >> \o CodePairs(Tail(answers))
    ELSE CodePairs(Tail(answers))

\* C8: the walker queries indices 0, 1, 2, ... consecutively (the k-th call
\* has index k - 1), makes no call after one that returned None, and
\* returns exactly the single-code answers as services and the code-pair
\* answers as areas received before that point, in index order.
C8_DiscoveryOrder ==
    /\ disc_queries > 0 => disc_last = disc_queries - 1
    /\ ~disc_after_none
    /\ dpc = "done" =>
         LET n == AnswersBeforeNone(directory)
             answered == SubSeq(directory, 1, n)
         IN n < DISCOVERY_LIMIT =>
              /\ disc_queries = n + 1
              /\ disc_none_seen
              /\ found_services = SingleCodes(answered)
              /\ areas = CodePairs(answered)

C8_Witness ==
    /\ dpc = "done"
    /\ Len(directory) = 4
    /\ directory[3].len = 0
    /\ directory[4].len = 1
    /\ Len(found_services) = 1
    /\ Len(areas) = 1
    /\ disc_queries = 3

\* C27: the walker makes at most 65536 directory queries and never asks for
\* an index above 65535; in front of a card that never answers None it
\* returns after exactly the queries 0..65535, with everything the card
\* answered.
C27_DiscoveryCap ==
    /\ disc_queries <= 65536
    /\ disc_last <= 65535
    /\ service_index <= 65536
    /\ disc_queries > 0 => disc_last = disc_queries - 1
    /\ ~IsNone(directory_rest) /\ (\A i \in DOMAIN directory : ~IsNone(directory[i])) =>
          /\ ~disc_none_seen
          /\ disc_queries = service_index
          /\ Len(areas) + Len(found_services) = disc_queries
          /\ dpc = "done" => disc_queries = 65536

C27_Witness ==
    /\ dpc = "done"
    /\ ~disc_none_seen
    /\ disc_queries = 65536
    /\ disc_last = 65535
    /\ Len(found_services) = 65536
    /\ areas = <<>>

(***************************************************************************)
(* Key-version resolver: TagReader._get_key_versions_batch and             *)
(* TagReader._process_codes_in_batches                                     *)
(***************************************************************************)
Min(a, b) == IF a <= b THEN a ELSE b

\* nfc's ServiceCode(number, attribute).
ServiceCode(number, attribute) == [number |-> number, attribute |-> attribute]

\* get_key_versions' area_converter and service_converter.
code_converter(code_type, code) ==
    IF code_type = "area"
    THEN ServiceCode(Shr(code[1], 6), code[1] % 64)   \* area[0] >> 6, area[0] & 0x3F
    ELSE ServiceCode(Shr(code, 6), code % 64)

\* How a query of the card can end: it raises, it returns one entry per
\* code asked, or it returns a list one entry short.
QueryOutcomes == {"raise", "full", "short"}
NotCalled == "not called"

\* The list a query returns: entry j is the card's key version of the j-th
\* code asked, in the query's form (v2: a pair of tags, v1: one tag).
QueryResponse(form, service_codes, outcome) ==
    LET n == IF outcome = "full" THEN Len(service_codes) ELSE Len(service_codes) - 1
    IN [j \in 1..(IF n < 0 THEN 0 ELSE n) |-> [form |-> form, of |-> service_codes[j]]]

\* Faulty variant: the v1 query is issued whatever the v2 query did, and wins.
_get_key_versions_batch_always_v1(service_codes, v2, v1) ==
    IF v1 # "raise"
    THEN [none |-> FALSE, list |-> QueryResponse("v1", service_codes, v1),
          calls |-> <<[form |-> "v2", args |-> service_codes],
                      [form |-> "v1", args |-> service_codes]>>]
    ELSE [none |-> TRUE, list |-> <<>>,
          calls |-> <<[form |-> "v2", args |-> service_codes],
                      [form |-> "v1", args |-> service_codes]>>]

\* _get_key_versions_batch(service_codes) when the v2 query would end as v2
\* and the v1 query as v1: the value returned (none = it is None) and the
\* calls made, in order.
_get_key_versions_batch(service_codes, v2, v1) ==
    IF v2 # "raise"
    THEN [none |-> FALSE, list |-> QueryResponse("v2", service_codes, v2),
          calls |-> <<[form |-> "v2", args |-> service_codes]>>]
    ELSE IF v1 # "raise"
    THEN [none |-> FALSE, list |-> QueryResponse("v1", service_codes, v1),
          calls |-> <<[form |-> "v2", args |-> service_codes],
                      [form |-> "v1", args |-> service_codes]>>]
    ELSE [none |-> TRUE, list |-> <<>>,
          calls |-> <<[form |-> "v2", args |-> service_codes],
                      [form |-> "v1", args |-> service_codes]>>]

\* `for j, code in enumerate(batch_codes): results[code] = batch_results[j]`
\* raised = batch_results[j] raised IndexError.
RECURSIVE StoreLoop(_, _, _, _)
StoreLoop(results, batch_codes, batch_results, j) ==
    IF j > Len(batch_codes) THEN [results |-> results, raised |-> FALSE]
    ELSE IF j > Len(batch_results) THEN [results |-> results, raised |-> TRUE]
    ELSE StoreLoop(MapSet(results, batch_codes[j], batch_results[j]),
                   batch_codes, batch_results, j + 1)

\* Faulty variant: a chunk whose two queries failed stores None for each code.
StoreBatchWithSentinel(results, batch_codes, batch) ==
    IF batch.none
    THEN [results |-> [c \in DOMAIN results \cup Range(batch_codes) |->
                         IF c \in Range(batch_codes)
                         THEN [form |-> "none", of |-> ServiceCode(0, 0)]
                         ELSE results[c]],
          raised |-> FALSE]
    ELSE StoreLoop(results, batch_codes, batch.list, 1)

\* The try block's `if batch_results is not None:` and its loop.
StoreBatch(results, batch_codes, batch) ==
    IF batch.none
    THEN [results |-> results, raised |-> FALSE]
    ELSE StoreLoop(results, batch_codes, batch.list, 1)

\* The codes the resolver is called with: no_codes of them, in a pattern
\* that repeats after `period` codes (a period of MaxCodes + 1 or more
\* gives pairwise distinct codes); areas are (start, end) pairs.
InputCodes(code_type, no_codes, period) ==
    [k \in 1..no_codes |->
        LET c == 64 + ((k - 1) % period) IN
        IF code_type = "area" THEN <<c, c + 1024>> ELSE c]

InputPeriods == {1, MAX_BATCH_SIZE, 1024}

KvIdle ==
    /\ kv_code_type = "service"
    /\ kv_codes = <<>>
    /\ kv_i = 0
    /\ kv_results = EmptyMap
    /\ kv_calls = <<>>
    /\ kv_outcomes = <<>>
    /\ kv_warnings = <<>>
    /\ kvpc = "idle"

\* Entry of _process_codes_in_batches.
KvInit ==
    /\ kv_code_type \in {"area", "service"}
    /\ \E n \in 0..MaxCodes, period \in InputPeriods :
          kv_codes = InputCodes(kv_code_type, n, period)
    /\ kv_i = 0
    /\ kv_results = EmptyMap
    /\ kv_calls = <<>>
    /\ kv_outcomes = <<>>
    /\ kv_warnings = <<>>
    /\ kvpc = "loop"

\* One iteration of `for i in range(0, len(codes), MAX_BATCH_SIZE)`.
ProcessBatch ==
    /\ kvpc = "loop"
    /\ kv_i < Len(kv_codes)
    /\ \E v2 \in QueryOutcomes, v1 \in QueryOutcomes :
         LET batch_codes == SubSeq(kv_codes, kv_i + 1,
                                   Min(kv_i + MAX_BATCH_SIZE, Len(kv_codes)))
             service_codes == [j \in DOMAIN batch_codes |->
                                 code_converter(kv_code_type, batch_codes[j])]
             batch == _get_key_versions_batch(service_codes, v2, v1)
             stored == StoreBatch(kv_results, batch_codes, batch)
             batch_num == (kv_i \div MAX_BATCH_SIZE) + 1
         IN /\ kv_results' = stored.results
            /\ kv_warnings' = IF stored.raised
                              THEN Append(kv_warnings, batch_num)
                              ELSE kv_warnings
            /\ kv_calls' = kv_calls \o
                 [k \in DOMAIN batch.calls |->
                    [form |-> batch.calls[k].form, chunk |-> batch_num,
                     args |-> batch.calls[k].args]]
            /\ kv_outcomes' = Append(kv_outcomes,
                 [v2 |-> v2,
                  v1 |-> IF Len(batch.calls) = 2 THEN v1 ELSE NotCalled])
    /\ kv_i' = kv_i + MAX_BATCH_SIZE
    /\ UNCHANGED <<kv_code_type, kv_codes, kvpc, notKvVars>>

\* The range is exhausted: return results.
ReturnResults ==
    /\ kvpc = "loop"
    /\ kv_i >= Len(kv_codes)
    /\ kvpc' = "done"
    /\ UNCHANGED <<kv_code_type, kv_codes, kv_i, kv_results, kv_calls,
                   kv_outcomes, kv_warnings, notKvVars>>

KvNext ==
    \/ ProcessBatch
    \/ ReturnResults

(***************************************************************************)
(* Key-version resolver: properties                                        *)
(***************************************************************************)
\* The c-th chunk of the codes, c = 1, 2, ...
ChunkOf(codes, c) ==
    SubSeq(codes, MAX_BATCH_SIZE * (c - 1) + 1, Min(MAX_BATCH_SIZE * c, Len(codes)))

\* The (number, attribute) pair the card is asked for a code: an area is
\* asked for by its first code.
AskedFor(code_type, code) ==
    LET node == IF code_type = "area" THEN code[1] ELSE code
    IN [number |-> node \div 64, attribute |-> node % 64]

AskedForChunk(code_type, chunk) ==
    [j \in DOMAIN chunk |-> AskedFor(code_type, chunk[j])]

\* Both queries of chunk c failed.
BothFailed(c) == kv_outcomes[c].v2 = "raise" /\ kv_outcomes[c].v1 = "raise"

\* The query of chunk c whose list was used, and how many entries it held.
UsedForm(c) == IF kv_outcomes[c].v2 # "raise" THEN "v2" ELSE "v1"
UsedOutcome(c) == IF kv_outcomes[c].v2 # "raise" THEN kv_outcomes[c].v2 ELSE kv_outcomes[c].v1
AnsweredCount(c) ==
    LET n == Len(ChunkOf(kv_codes, c)) IN
    IF UsedOutcome(c) = "full" THEN n ELSE n - 1

\* C9: per chunk the v2 query is issued first, on the whole chunk; the v1
\* query is issued iff the v2 query failed, on the same codes; when v2
\* succeeds the entries the chunk records are v2 entries and v1 is not
\* called for that chunk.
C9_V2ThenV1 ==
    /\ \A k, l \in DOMAIN kv_calls : k <= l => kv_calls[k].chunk <= kv_calls[l].chunk
    /\ \A c \in DOMAIN kv_outcomes :
         LET IsOfChunk(call) == call.chunk = c
             cs == SelectSeq(kv_calls, IsOfChunk)
             asked == AskedForChunk(kv_code_type, ChunkOf(kv_codes, c))
         IN /\ Len(cs) \in {1, 2}
            /\ cs[1].form = "v2"
            /\ cs[1].args = asked
            /\ (Len(cs) = 2) <=> (kv_outcomes[c].v2 = "raise")
            /\ Len(cs) = 2 => (cs[2].form = "v1" /\ cs[2].args = asked)
    /\ LET c == Len(kv_outcomes) IN
         (c >= 1 /\ kv_outcomes[c].v2 # "raise") =>
            LET chunk == ChunkOf(kv_codes, c) IN
            \A j \in 1..AnsweredCount(c) :
               /\ chunk[j] \in DOMAIN kv_results
               /\ kv_results[chunk[j]] =
                     [form |-> "v2", of |-> AskedFor(kv_code_type, chunk[j])]

C9_Witness ==
    /\ Len(kv_outcomes) = 2
    /\ kv_outcomes[1].v2 = "raise"
    /\ kv_outcomes[1].v1 = "full"
    /\ kv_outcomes[2].v2 = "full"
    /\ Len(kv_calls) = 3
    /\ Cardinality(DOMAIN kv_results) = 40

\* C10: when both queries of a chunk fail, the chunk stores nothing (no
\* entry and no sentinel for a code that only failing chunks hold), every
\* chunk is still queried, and the result is what the other chunks store.
C10_ChunkScopedFailure ==
    kvpc = "done" =>
      LET nchunks == (Len(kv_codes) + MAX_BATCH_SIZE - 1) \div MAX_BATCH_SIZE
          ChunkNo(k) == ((k - 1) \div MAX_BATCH_SIZE) + 1
          PosIn(k) == ((k - 1) % MAX_BATCH_SIZE) + 1
          stored == {k \in DOMAIN kv_codes :
                       ~BothFailed(ChunkNo(k)) /\ PosIn(k) <= AnsweredCount(ChunkNo(k))}
      IN /\ Len(kv_outcomes) = nchunks
         /\ \A c \in 1..nchunks :
               \E k \in DOMAIN kv_calls :
                  kv_calls[k].chunk = c /\ kv_calls[k].form = "v2"
         /\ DOMAIN kv_results = {kv_codes[k] : k \in stored}
         /\ \A k \in stored :
               (\A l \in stored : kv_codes[l] = kv_codes[k] => l <= k) =>
                  kv_results[kv_codes[k]] =
                     [form |-> UsedForm(ChunkNo(k)),
                      of |-> AskedFor(kv_code_type, kv_codes[k])]

C10_Witness ==
    /\ kvpc = "done"
    /\ Len(kv_codes) = 65
    /\ BothFailed(1)
    /\ kv_outcomes[2].v2 = "raise"
    /\ kv_outcomes[2].v1 = "full"
    /\ BothFailed(3)
    /\ Cardinality(Range(kv_codes)) = 65
    /\ DOMAIN kv_results = Range(ChunkOf(kv_codes, 2))

\* C24 as stated: whenever both the v2 and the v1 query of a chunk failed,
\* a warning naming the index of that chunk has been emitted.
C24_AsStated ==
    \A c \in DOMAIN kv_outcomes :
       BothFailed(c) => \E w \in DOMAIN kv_warnings : kv_warnings[w] = c

C24_Witness ==
    /\ kvpc = "done"
    /\ Len(kv_outcomes) = 2
    /\ BothFailed(1)
    /\ BothFailed(2)
    /\ kv_warnings = <<>>
    /\ kv_results = EmptyMap

\* The lists of codes the v2 queries were issued with, one per chunk, in the
\* order of the calls.
V2Calls == SelectSeq(kv_calls, LAMBDA call : call.form = "v2")
QueriedChunks == [k \in DOMAIN V2Calls |-> V2Calls[k].args]

\* C25: the chunks queried are consecutive pieces of the input in input
\* order (so each code is in exactly one chunk), each of 1 to 32 codes and
\* each but the last of exactly 32; 40 codes give a chunk of 32 and one of 8.
C25_ChunksOfThirtyTwo ==
    /\ \A k \in DOMAIN QueriedChunks :
          /\ Len(QueriedChunks[k]) >= 1
          /\ Len(QueriedChunks[k]) <= 32
          /\ V2Calls[k].chunk = k
          /\ k < Len(QueriedChunks) => Len(QueriedChunks[k]) = 32
    /\ LET asked == Flatten(QueriedChunks)
       IN /\ Len(asked) <= Len(kv_codes)
          /\ \A j \in DOMAIN asked : asked[j] = AskedFor(kv_code_type, kv_codes[j])
          /\ kvpc = "done" => Len(asked) = Len(kv_codes)
          /\ kvpc = "loop" /\ Len(asked) < Len(kv_codes) => Len(asked) % 32 = 0
    /\ kvpc = "done" /\ Len(kv_codes) = 40 =>
          /\ Len(QueriedChunks) = 2
          /\ Len(QueriedChunks[1]) = 32
          /\ Len(QueriedChunks[2]) = 8

C25_Witness ==
    /\ kvpc = "done"
    /\ kv_code_type = "service"
    /\ Len(kv_codes) = 40
    /\ Len(QueriedChunks) = 2
    /\ Len(QueriedChunks[2]) = 8

\* Every code of the chunk has an entry / no code of the chunk has one.
ChunkStored(chunk) == \A j \in DOMAIN chunk : chunk[j] \in DOMAIN kv_results
ChunkOmitted(chunk) == \A j \in DOMAIN chunk : chunk[j] \notin DOMAIN kv_results
PairwiseDistinct(codes) ==
    \A i, j \in DOMAIN codes : codes[i] = codes[j] => i = j

\* C29 as stated: for pairwise distinct codes, when the resolver has
\* returned, each chunk has an entry for every one of its codes or for none,
\* whatever the queries returned or raised.
C29_AsStated ==
    kvpc = "done" /\ PairwiseDistinct(kv_codes) =>
       \A c \in DOMAIN kv_outcomes :
          ChunkStored(ChunkOf(kv_codes, c)) \/ ChunkOmitted(ChunkOf(kv_codes, c))

C29_Witness ==
    /\ kvpc = "done"
    /\ PairwiseDistinct(kv_codes)
    /\ Len(kv_codes) = 32
    /\ kv_outcomes = <<[v2 |-> "short", v1 |-> NotCalled]>>
    /\ Cardinality(DOMAIN kv_results) = 31
    /\ kv_codes[32] \notin DOMAIN kv_results
    /\ kv_warnings = <<1>>

(***************************************************************************)
(* Block reader: TagReader.read_blocks_without_encryption and              *)
(* TagReader.read_blocks_with_authentication                               *)
(***************************************************************************)
\* The largest number of full blocks a modelled service holds.
MaxBlocks == 2
\* max_blocks of the two read functions, as the service processor passes it.
MAX_BLOCKS == 65536
\* The length a plain-read response must have to count as a block.
BlockLength == 16

\* An argument that a call or a line does not have.
NoArg == 0 - 1

\* One line of output: "Block" with the block number, or a message.
Line(text, arg) == [text |-> text, arg |-> arg]

\* What a primitive does when called: it returns ("ok", or "data" of some
\* length, len 0 being an empty or None response), raises
\* Type3TagCommandError ("command_error"), or raises another exception
\* ("error").
Response(kind, len) == [kind |-> kind, len |-> len]

\* A call of a card or key primitive as the call log keeps it: its arguments
\* and what it answered.
Call(op, area_codes, service_codes, key_input, index, block, answer) ==
    [op |-> op, area_codes |-> area_codes, service_codes |-> service_codes,
     key_input |-> key_input, index |-> index, block |-> block, answer |-> answer]

\* The keys handed to the key-derivation primitive; NoKeyInput for the calls
\* that take no keys.
KeyInput(system_key, area_keys, service_keys) ==
    [system_key |-> system_key, area_keys |-> area_keys, service_keys |-> service_keys]
NoKeyInput == KeyInput(NoArg, <<>>, <<>>)

\* A card service as the read loops see it: `blocks` full answers, and from
\* then on the answer `then`.
PlainEnds == {Response("data", 0), Response("data", BlockLength \div 2),
              Response("command_error", 0), Response("error", 0)}
AuthEnds == {Response("data", 0), Response("command_error", 0),
             Response("error", 0)}
PlainCards == [blocks : 0..MaxBlocks, then : PlainEnds]
AuthCards == [blocks : 0..MaxBlocks, then : AuthEnds]

\* tag.read_without_encryption([ServiceCode], [BlockCode(block_number)]):
\* the bytes of one block.
read_without_encryption(card, block_number) ==
    IF block_number < card.blocks THEN Response("data", BlockLength) ELSE card.then

\* tag.read_blocks([(service_index, block_number)]): a list of blocks.
read_blocks(card, block_number) ==
    IF block_number < card.blocks THEN Response("data", 1) ELSE card.then

ReadStart == [output_lines |-> <<>>, block_count |-> 0, calls |-> <<>>,
              raised |-> FALSE, go |-> TRUE]

\* Faulty variant: the protocol command error is handled like any other
\* exception.
PlainLoopBodyCommandErrorFails(st, block_number, block_data) ==
    IF block_data.kind \in {"error", "command_error"}
    THEN [st EXCEPT !.raised = TRUE, !.go = FALSE]
    ELSE IF block_data.len # 0 /\ block_data.len >= BlockLength
         THEN [st EXCEPT !.output_lines = Append(@, Line("Block", block_number)),
                         !.block_count = @ + 1]
         ELSE [st EXCEPT !.go = FALSE]

\* One iteration of the plain loop, after the primitive answered block_data.
PlainLoopBody(st, block_number, block_data) ==
    IF block_data.kind = "error" THEN [st EXCEPT !.raised = TRUE, !.go = FALSE]
    ELSE IF block_data.kind = "command_error" THEN [st EXCEPT !.go = FALSE]
    ELSE IF block_data.len # 0 /\ block_data.len >= BlockLength
         THEN [st EXCEPT !.output_lines = Append(@, Line("Block", block_number)),
                         !.block_count = @ + 1]
         ELSE [st EXCEPT !.go = FALSE]

RECURSIVE PlainLoop(_, _, _, _, _)
PlainLoop(st, service_code, max_blocks, card, block_number) ==
    IF ~st.go \/ block_number >= max_blocks THEN st
    ELSE LET sc == ServiceCode(Shr(service_code, 6), service_code % 64)
             block_data == read_without_encryption(card, block_number)
             called == [st EXCEPT !.calls = Append(@,
                           Call("read_without_encryption", <<>>, <<sc>>,
                                NoKeyInput, NoArg, block_number, block_data))]
         IN PlainLoop(PlainLoopBody(called, block_number, block_data),
                      service_code, max_blocks, card, block_number + 1)

\* The function catches every exception itself: the outer handler adds a
\* line and returns (output_lines, 0).
read_blocks_without_encryption(service_code, max_blocks, card) ==
    LET st == PlainLoop(ReadStart, service_code, max_blocks, card, 0)
    IN IF st.raised
       THEN [output_lines |-> Append(st.output_lines,
                                Line("Failed to read without authentication", NoArg)),
             block_count |-> 0, calls |-> st.calls, raised |-> FALSE]
       ELSE [output_lines |-> st.output_lines, block_count |-> st.block_count,
             calls |-> st.calls, raised |-> FALSE]

\* One iteration of the authenticated loop.
AuthLoopBody(st, block_number, block_data) ==
    IF block_data.kind = "error" THEN [st EXCEPT !.raised = TRUE, !.go = FALSE]
    ELSE IF block_data.kind = "command_error" THEN [st EXCEPT !.go = FALSE]
    ELSE IF block_data.len # 0 /\ block_data.len > 0
         THEN [st EXCEPT !.output_lines = Append(@, Line("Block", block_number)),
                         !.block_count = @ + 1]
         ELSE [st EXCEPT !.go = FALSE]

RECURSIVE AuthLoop(_, _, _, _, _)
AuthLoop(st, service_index_, max_blocks, card, block_number) ==
    IF ~st.go \/ block_number >= max_blocks THEN st
    ELSE LET block_data == read_blocks(card, block_number)
             called == [st EXCEPT !.calls = Append(@,
                           Call("read_blocks", <<>>, <<>>, NoKeyInput, service_index_,
                                block_number, block_data))]
         IN AuthLoop(AuthLoopBody(called, block_number, block_data),
                     service_index_, max_blocks, card, block_number + 1)

read_blocks_with_authentication(service_index_, max_blocks, card) ==
    LET st == AuthLoop(ReadStart, service_index_, max_blocks, card, 0)
    IN IF st.raised
       THEN [output_lines |-> Append(st.output_lines,
                                Line("Failed to read blocks", NoArg)),
             block_count |-> 0, calls |-> st.calls, raised |-> FALSE]
       ELSE [output_lines |-> st.output_lines, block_count |-> st.block_count,
             calls |-> st.calls, raised |-> FALSE]

(***************************************************************************)
(* Block reader: state machine                                             *)
(***************************************************************************)
NoReturn == [output_lines |-> <<>>, block_count |-> 0, calls |-> <<>>,
             raised |-> FALSE]

ReadIdle ==
    /\ rd_mode = "plain"
    /\ rd_target = 0
    /\ rd_max_blocks = 0
    /\ rd_card = [blocks |-> 0, then |-> Response("data", 0)]
    /\ rd_ret = NoReturn
    /\ rdpc = "idle"

ReadInit ==
    /\ rd_mode \in {"plain", "authenticated"}
    /\ rd_target \in IF rd_mode = "plain" THEN {9, 11} ELSE {0}
    /\ rd_max_blocks \in {0, 1, MaxBlocks, MAX_BLOCKS}
    /\ rd_card \in IF rd_mode = "plain" THEN PlainCards ELSE AuthCards
    /\ rd_ret = NoReturn
    /\ rdpc = "call"

ReadPlain ==
    /\ rdpc = "call"
    /\ rd_mode = "plain"
    /\ rd_ret' = read_blocks_without_encryption(rd_target, rd_max_blocks, rd_card)
    /\ rdpc' = "done"
    /\ UNCHANGED <<rd_mode, rd_target, rd_max_blocks, rd_card, notReadVars>>

ReadAuthenticated ==
    /\ rdpc = "call"
    /\ rd_mode = "authenticated"
    /\ rd_ret' = read_blocks_with_authentication(rd_target, rd_max_blocks, rd_card)
    /\ rdpc' = "done"
    /\ UNCHANGED <<rd_mode, rd_target, rd_max_blocks, rd_card, notReadVars>>

ReadNext ==
    \/ ReadPlain
    \/ ReadAuthenticated

(***************************************************************************)
(* Block reader: properties                                                *)
(***************************************************************************)
\* The answer of a read call is a full response: 16 bytes or more for the
\* plain primitive, a list that is not empty for the authenticated one.
IsFull(call) ==
    /\ call.answer.kind = "data"
    /\ call.answer.len >= (IF call.op = "read_blocks" THEN 1 ELSE BlockLength)

FullResponses(calls) == Cardinality({i \in DOMAIN calls : IsFull(calls[i])})
BlockLines(lines) == SelectSeq(lines, LAMBDA l : l.text = "Block")

C30_AsStated ==
    rdpc = "done" => rd_ret.block_count = Len(BlockLines(rd_ret.output_lines))

C30_Witness ==
    /\ rdpc = "done"
    /\ rd_mode = "authenticated"
    /\ Len(rd_ret.calls) = 3
    /\ rd_ret.calls[3].answer.kind = "error"
    /\ rd_ret.block_count = 0
    /\ rd_ret.output_lines = <<Line("Block", 0), Line("Block", 1),
                               Line("Failed to read blocks", NoArg)>>

(***************************************************************************)
(* Authentication handler: AuthenticationHandler                           *)
(***************************************************************************)
\* Python's stable list.sort / sorted, Less(a, b) standing for key(a) < key(b).
SortedBy(s, Less(_, _)) ==
    LET n == Len(s)
        Rank(i) == 1 + Cardinality({j \in 1..n :
                          Less(s[j], s[i]) \/ (~Less(s[i], s[j]) /\ j < i)})
    IN [p \in 1..n |-> s[CHOOSE i \in 1..n : Rank(i) = p]]

\* Faulty variant: the answer is taken from bit 1 of the code.
requires_authentication_bit1(service_code) == ((service_code \div 2) % 2) = 0

\* The service needs mutual authentication: `not (service_code & 1)`.
requires_authentication(service_code) == (service_code % 2) = 0

\* A KeyInfo of the key table; the key value stands for the key bytes.
KeyInfo(node_id) == [node_id |-> node_id, key_value |-> node_id]
NoKeyInfo == [node_id |-> NoArg, key_value |-> NoArg]

\* UsedKeys(): the dataclass defaults.
UsedKeys == [system_key |-> NoKeyInfo, area_keys |-> <<>>, service_keys |-> <<>>,
             authentication_required |-> FALSE, authentication_status |-> "none"]

\* How the two primitives of an authentication behave:
\* KeyManager.generate_service_keys and tag.mutual_authentication.
AuthOutcomes == {"ok", "derive_raises", "authenticate_raises"}

\* Faulty variant: the containing areas are sorted by start descending.
ByStartDescending(a, b) == a[1] > b[1]

\* key=lambda x: x[0]
ByStart(a, b) == a[1] < b[1]

\* The areas whose range holds the service code, in list order.
ContainingAreas(service_code, areas_) ==
    SelectSeq(areas_, LAMBDA area : area[1] <= service_code /\ service_code <= area[2])

\* Faulty variant: an area without a key puts a placeholder in the key chain.
AreaKeyLoopBodyPlaceholder(st, area, keys_) ==
    IF area[1] \in DOMAIN keys_
    THEN [st EXCEPT !.area_key_infos = Append(@, keys_[area[1]]),
                    !.used_keys.area_keys = Append(@, keys_[area[1]])]
    ELSE [st EXCEPT !.area_key_infos = Append(@, NoKeyInfo),
                    !.error_messages = Append(@, Line("No key for area", area[1]))]

\* One iteration of the key-chain loop over the containing areas.
AreaKeyLoopBody(st, area, keys_) ==
    IF area[1] \in DOMAIN keys_
    THEN [st EXCEPT !.area_key_infos = Append(@, keys_[area[1]]),
                    !.used_keys.area_keys = Append(@, keys_[area[1]])]
    ELSE [st EXCEPT !.error_messages = Append(@, Line("No key for area", area[1]))]

RECURSIVE AreaKeyLoop(_, _, _)
AreaKeyLoop(st, containing_areas, keys_) ==
    IF containing_areas = <<>> THEN st
    ELSE AreaKeyLoop(AreaKeyLoopBody(st, Head(containing_areas), keys_),
                     Tail(containing_areas), keys_)

\* The try block: derive the keys, then authenticate.
Authenticate(service_code, containing_areas, st, system_key, service_keys, outcome) ==
    LET area_keys == [i \in DOMAIN st.area_key_infos |-> st.area_key_infos[i].key_value]
        derive == Call("generate_service_keys", <<>>, <<>>,
                       KeyInput(system_key, area_keys, service_keys), NoArg, NoArg,
                       Response(IF outcome = "derive_raises" THEN "error" ELSE "ok", 0))
        area_codes == [i \in DOMAIN containing_areas |-> containing_areas[i][1]]
        authenticate == Call("mutual_authentication", area_codes, <<service_code>>,
                             NoKeyInput, NoArg, NoArg,
                             Response(IF outcome = "authenticate_raises"
                                      THEN "error" ELSE "ok", 0))
        failed == Append(st.error_messages, Line("Authentication failed", NoArg))
    IN IF outcome = "derive_raises"
       THEN [ret |-> <<FALSE, "None", "None", failed>>, used_keys |-> st.used_keys,
             calls |-> <<derive>>]
       ELSE IF outcome = "authenticate_raises"
       THEN [ret |-> <<FALSE, "None", "None", failed>>, used_keys |-> st.used_keys,
             calls |-> <<derive, authenticate>>]
       ELSE [ret |-> <<TRUE, "issue_id", "issue_parameter", st.error_messages>>,
             used_keys |-> st.used_keys, calls |-> <<derive, authenticate>>]

\* Faulty variant: the two required keys are not checked.
authenticate_service_unchecked(service_code, areas_, keys_, used_keys, outcome) ==
    LET containing_areas == SortedBy(ContainingAreas(service_code, areas_), ByStart)
        st == AreaKeyLoop([area_key_infos |-> <<>>, used_keys |-> used_keys,
                           error_messages |-> <<>>], containing_areas, keys_)
    IN Authenticate(service_code, containing_areas, st, SYSTEM_KEY_NODE_ID,
                    <<service_code>>, outcome)

\* authenticate_service returns the 4-tuple
\* (success, issue_id, issue_parameter, error_messages); `used_keys` is the
\* caller's object as the call leaves it and `calls` the primitives it called.
authenticate_service(service_code, areas_, keys_, used_keys, outcome) ==
    LET unsorted == ContainingAreas(service_code, areas_)
        containing_areas == SortedBy(unsorted, ByStart)
    IN IF unsorted = <<>>
       THEN [ret |-> <<FALSE, "None", "None",
                       <<Line("Service not found in any area", NoArg)>>>>,
             used_keys |-> used_keys, calls |-> <<>>]
       ELSE IF SYSTEM_KEY_NODE_ID \notin DOMAIN keys_
       THEN [ret |-> <<FALSE, "None", "None",
                       <<Line("System key not found", SYSTEM_KEY_NODE_ID)>>>>,
             used_keys |-> used_keys, calls |-> <<>>]
       ELSE IF service_code \notin DOMAIN keys_
       THEN [ret |-> <<FALSE, "None", "None",
                       <<Line("Service key not found", service_code)>>>>,
             used_keys |-> used_keys, calls |-> <<>>]
       ELSE LET recorded == [used_keys EXCEPT
                               !.authentication_required = TRUE,
                               !.system_key = keys_[SYSTEM_KEY_NODE_ID],
                               !.service_keys = Append(@, keys_[service_code])]
                st == AreaKeyLoop([area_key_infos |-> <<>>, used_keys |-> recorded,
                                   error_messages |-> <<>>], containing_areas, keys_)
            IN Authenticate(service_code, containing_areas, st,
                            keys_[SYSTEM_KEY_NODE_ID].key_value,
                            <<keys_[service_code].key_value>>, outcome)

(***************************************************************************)
(* Service-group processor: ServiceProcessor.process_service_group         *)
(***************************************************************************)
\* `"not found" in msg`, on the messages authenticate_service builds.
ContainsNotFound(msg) ==
    msg.text \in {"Service not found in any area", "System key not found",
                  "Service key not found"}

\* What the primitives a group may reach do: the authentication outcome, and
\* the card's answers to plain and to authenticated block reads.
Environment(auth, plain, authenticated) ==
    [auth |-> auth, plain |-> plain, authenticated |-> authenticated]

\* What authenticate_service returned to _read_with_authentication, kept
\* with the result; NoAuthentication when it was not called.
Returned(ret) == [called |-> TRUE, success |-> ret[1], error_messages |-> ret[4]]
NoAuthentication == [called |-> FALSE, success |-> FALSE, error_messages |-> <<>>]

\* Returns (success, block_count, output_lines); `raised` tells that an
\* exception left the function instead.
_read_without_authentication(service_code, used_keys, env) ==
    LET entered == [used_keys EXCEPT !.authentication_required = FALSE,
                                     !.authentication_status = "none"]
        read == read_blocks_without_encryption(service_code, MAX_BLOCKS, env.plain)
    IN IF read.raised
       THEN [success |-> FALSE, block_count |-> 0,
             output_lines |-> <<Line("Failed to read without authentication", NoArg)>>,
             used_keys |-> entered, calls |-> read.calls, raised |-> FALSE,
             auth |-> NoAuthentication]
       ELSE [success |-> TRUE, block_count |-> read.block_count,
             output_lines |-> read.output_lines,
             used_keys |-> entered, calls |-> read.calls, raised |-> FALSE,
             auth |-> NoAuthentication]

\* Faulty variant: no except branch, the exception leaves the function.
AuthenticationReadRaises(auth, calls) ==
    [success |-> FALSE, block_count |-> 0, output_lines |-> <<>>,
     used_keys |-> auth.used_keys, calls |-> calls, raised |-> TRUE,
     auth |-> Returned(auth.ret)]

\* The except branch of _read_with_authentication.
AuthenticationReadFailed(auth, calls) ==
    [success |-> FALSE, block_count |-> 0,
     output_lines |-> <<Line("Authentication/read failed", NoArg)>>,
     used_keys |-> [auth.used_keys EXCEPT !.authentication_status = "failed_error"],
     calls |-> calls, raised |-> FALSE, auth |-> Returned(auth.ret)]

\* `auth_success, error_messages = authenticate_service(...)` unpacks the
\* returned tuple into two names: Python raises ValueError unless the tuple
\* has exactly two items, and the except branch of the function catches it.
_read_with_authentication(service_code, areas_, keys_, used_keys, env) ==
    LET auth == authenticate_service(service_code, areas_, keys_, used_keys, env.auth)
        unpacked == Len(auth.ret) = 2
        auth_success == auth.ret[1]
        error_messages == auth.ret[2]
    IN IF ~unpacked
       THEN AuthenticationReadFailed(auth, auth.calls)
       ELSE IF ~auth_success
       THEN [success |-> FALSE, block_count |-> 0, output_lines |-> error_messages,
             used_keys |-> [auth.used_keys EXCEPT !.authentication_status =
                               IF \E i \in DOMAIN error_messages :
                                     ContainsNotFound(error_messages[i])
                               THEN "failed_missing_keys" ELSE "failed_error"],
             calls |-> auth.calls, raised |-> FALSE, auth |-> Returned(auth.ret)]
       ELSE LET read == read_blocks_with_authentication(0, MAX_BLOCKS,
                                                        env.authenticated)
            IN IF read.raised
               THEN AuthenticationReadFailed(auth, auth.calls \o read.calls)
               ELSE [success |-> TRUE, block_count |-> read.block_count,
                     output_lines |-> read.output_lines,
                     used_keys |-> [auth.used_keys EXCEPT
                                      !.authentication_status = "successful"],
                     calls |-> auth.calls \o read.calls, raised |-> FALSE,
                     auth |-> Returned(auth.ret)]

\* A ServiceResult (processing_time left out).  `mode` and `selected` record
\* which read function was entered and with which service code, `calls` the
\* primitives called on the way, `auth` what authenticate_service returned,
\* and `raised` that no result was returned because an exception left
\* process_service_group.
ServiceResult(service_codes, read, mode, selected) ==
    [service_codes |-> service_codes, output_lines |-> read.output_lines,
     success |-> read.success, block_count |-> read.block_count,
     used_keys |-> read.used_keys, mode |-> mode, selected |-> selected,
     calls |-> read.calls, raised |-> read.raised, auth |-> read.auth]

_process_single_service(service_code, areas_, keys_, env) ==
    IF requires_authentication(service_code)
    THEN ServiceResult(<<service_code>>,
             _read_with_authentication(service_code, areas_, keys_, UsedKeys, env),
             "authenticated", service_code)
    ELSE ServiceResult(<<service_code>>,
             _read_without_authentication(service_code, UsedKeys, env),
             "plain", service_code)

\* No tuple is returned: service_group[0] raised IndexError.
IndexErrorRaised ==
    [success |-> FALSE, block_count |-> 0, output_lines |-> <<>>,
     used_keys |-> UsedKeys, calls |-> <<>>, raised |-> TRUE,
     auth |-> NoAuthentication]

\* Faulty variant: the first member without authentication is read.
SelectedNoAuthFirst(no_auth_services) == no_auth_services[1]

\* no_auth_services[-1]
SelectedNoAuth(no_auth_services) == no_auth_services[Len(no_auth_services)]

\* service_group[0] of an empty group raises IndexError.
process_service_group(service_group, areas_, keys_, env) ==
    IF Len(service_group) = 1
    THEN _process_single_service(service_group[1], areas_, keys_, env)
    ELSE IF service_group = <<>>
    THEN ServiceResult(<<>>, IndexErrorRaised, "none", NoArg)
    ELSE LET no_auth_services == SelectSeq(service_group, LAMBDA sc : sc % 2 = 1)
         IN IF no_auth_services # <<>>
            THEN ServiceResult(service_group,
                     _read_without_authentication(SelectedNoAuth(no_auth_services),
                                                  UsedKeys, env),
                     "plain", SelectedNoAuth(no_auth_services))
            ELSE ServiceResult(service_group,
                     _read_with_authentication(service_group[1], areas_, keys_,
                                               UsedKeys, env),
                     "authenticated", service_group[1])

(***************************************************************************)
(* Per-system run loop: FelicaDumper.process_tag                           *)
(***************************************************************************)
\* The longest service list of a modelled system.
MaxRunServices == 3

\* The services of a system: pairwise distinct codes, as a card lists them.
RunCodes == {8, 9, 10, 11, 12}
RunServices == {svcs \in SeqsUpTo(RunCodes, MaxRunServices) :
                  \A i, j \in DOMAIN svcs : svcs[i] = svcs[j] => i = j}

RunAreaLists == {<<>>,
                 <<<<8, 11>>, <<0, 65534>>>>,
                 <<<<0, 11>>, <<0, 65534>>>>,
                 <<<<12, 15>>>>}

RunKeyNodes == {{SYSTEM_KEY_NODE_ID, 8, 10, 12},
                {SYSTEM_KEY_NODE_ID, ROOT_AREA_KEY_NODE_ID, 12},
                {ROOT_AREA_KEY_NODE_ID, 8, 10, 12}}

\* The primitives' behaviours tried for a group of the no_auth bucket and for
\* a group of the auth bucket.
RunPlainCards == {c \in PlainCards : c.blocks \in {0, MaxBlocks}}
RunAuthCards == {c \in AuthCards : c.blocks \in {0, MaxBlocks}}
NoAuthEnvironments ==
    {Environment(a, c, [blocks |-> 0, then |-> Response("command_error", 0)]) :
        a \in {"ok", "authenticate_raises"}, c \in RunPlainCards}
AuthEnvironments ==
    {Environment(a, [blocks |-> 0, then |-> Response("command_error", 0)], c) :
        a \in AuthOutcomes, c \in RunAuthCards}

\* A log entry: a primitive call and the position of the group it was made for.
Logged(order, call) == [order |-> order, call |-> call]

\* ServiceResult.primary_service_code
primary_service_code(result) ==
    CHOOSE m \in Range(result.service_codes) :
        \A c \in Range(result.service_codes) : m <= c

\* key=lambda r: r.primary_service_code
ByPrimary(a, b) == primary_service_code(a) < primary_service_code(b)

\* Faulty variant: the card's authentication state is not reset.
RunLoopBodyWithoutReset(service_group, order, areas_, keys_, env) ==
    LET result == process_service_group(service_group, areas_, keys_, env)
    IN [log |-> [i \in DOMAIN result.calls |-> Logged(order, result.calls[i])],
        result |-> result @@ [order |-> order]]

\* One iteration of either loop: reset_authentication, then
\* process_service_group; `order` is the position of the group in the run.
RunLoopBody(service_group, order, areas_, keys_, env) ==
    LET result == process_service_group(service_group, areas_, keys_, env)
    IN [log |-> <<Logged(order, Call("reset_authentication", <<>>, <<>>, NoKeyInput,
                                     NoArg, NoArg, Response("ok", 0)))>>
                \o [i \in DOMAIN result.calls |-> Logged(order, result.calls[i])],
        result |-> result @@ [order |-> order]]

RunIdle ==
    /\ run_services = <<>>
    /\ run_areas = <<>>
    /\ run_keys = EmptyMap
    /\ run_no_auth = <<>>
    /\ run_auth = <<>>
    /\ run_done = 0
    /\ run_results = <<>>
    /\ run_log = <<>>
    /\ run_raised = FALSE
    /\ runpc = "idle"

\* The run of one system, after grouping and bucketing its services.
RunInit ==
    /\ run_services \in RunServices
    /\ run_areas \in RunAreaLists
    /\ \E nodes \in RunKeyNodes : run_keys = [n \in nodes |-> KeyInfo(n)]
    /\ LET buckets == optimize_service_processing_order(
                          group_overlapped_services(run_services))
       IN /\ run_no_auth = buckets.no_auth
          /\ run_auth = buckets.auth
    /\ run_done = 0
    /\ run_results = <<>>
    /\ run_log = <<>>
    /\ run_raised = FALSE
    /\ runpc = "loop"

RunStep(service_group, env) ==
    LET body == RunLoopBody(service_group, run_done + 1, run_areas, run_keys, env)
    IN /\ run_log' = run_log \o body.log
       /\ run_done' = run_done + 1
       /\ IF body.result.raised
          THEN /\ run_raised' = TRUE
               /\ runpc' = "aborted"
               /\ run_results' = run_results
          ELSE /\ run_results' = Append(run_results, body.result)
               /\ UNCHANGED <<run_raised, runpc>>
       /\ UNCHANGED <<run_services, run_areas, run_keys, run_no_auth, run_auth,
                      notRunVars>>

\* for group_idx, service_group in enumerate(no_auth_groups, 1)
ProcessNoAuthGroup ==
    /\ runpc = "loop"
    /\ run_done < Len(run_no_auth)
    /\ \E env \in NoAuthEnvironments : RunStep(run_no_auth[run_done + 1], env)

\* Faulty variant: the loop over the auth bucket does not wait for the loop
\* over the no_auth bucket.
ProcessAuthGroupEarly ==
    /\ runpc = "loop"
    /\ run_done < Len(run_auth)
    /\ \E env \in AuthEnvironments : RunStep(run_auth[run_done + 1], env)

\* for group_idx, service_group in enumerate(auth_groups, 1)
ProcessAuthGroup ==
    /\ runpc = "loop"
    /\ run_done >= Len(run_no_auth)
    /\ run_done < Len(run_no_auth) + Len(run_auth)
    /\ \E env \in AuthEnvironments :
          RunStep(run_auth[run_done - Len(run_no_auth) + 1], env)

\* results.sort(key=lambda r: r.primary_service_code)
SortResults ==
    /\ runpc = "loop"
    /\ run_done = Len(run_no_auth) + Len(run_auth)
    /\ run_results' = SortedBy(run_results, ByPrimary)
    /\ runpc' = "done"
    /\ UNCHANGED <<run_services, run_areas, run_keys, run_no_auth, run_auth,
                   run_done, run_log, run_raised, notRunVars>>

RunNext ==
    \/ ProcessNoAuthGroup
    \/ ProcessAuthGroup
    \/ SortResults

(***************************************************************************)
(* Run loop, service-group processor, authentication handler: properties   *)
(***************************************************************************)
\* Some area of the run holds the code.
InSomeArea(code) ==
    \E i \in DOMAIN run_areas : run_areas[i][1] <= code /\ code <= run_areas[i][2]

\* The key table holds the system key and the key of the code.
HasBothKeys(code) ==
    SYSTEM_KEY_NODE_ID \in DOMAIN run_keys /\ code \in DOMAIN run_keys

\* The calls of a result that went to one of the named primitives.
CallsTo(r, ops) == SelectSeq(r.calls, LAMBDA c : c.op \in ops)

AuthPrimitives == {"generate_service_keys", "mutual_authentication"}
ReadPrimitives == {"read_without_encryption", "read_blocks"}

\* The message authenticate_service owes for a code it refuses.
RefusalFor(code) ==
    IF ~InSomeArea(code) THEN Line("Service not found in any area", NoArg)
    ELSE IF SYSTEM_KEY_NODE_ID \notin DOMAIN run_keys
    THEN Line("System key not found", SYSTEM_KEY_NODE_ID)
    ELSE Line("Service key not found", code)

\* C11: authenticate_service calls the key-derivation and the
\* mutual-authentication primitive only for a code that lies in some area
\* and whose system key and service key are both in the key table; for any
\* other code it calls neither and returns failure with one message naming
\* the reason, which with no areas at all is "not found in any area".
C11_AuthenticationGuard ==
    \A k \in DOMAIN run_results :
       LET r == run_results[k]
           allowed == InSomeArea(r.selected) /\ HasBothKeys(r.selected)
       IN r.auth.called =>
            /\ CallsTo(r, AuthPrimitives) # <<>> => allowed
            /\ ~allowed =>
                  /\ CallsTo(r, AuthPrimitives) = <<>>
                  /\ ~r.auth.success
                  /\ r.auth.error_messages = <<RefusalFor(r.selected)>>
            /\ run_areas = <<>> =>
                  r.auth.error_messages[1].text = "Service not found in any area"

C11_Witness ==
    /\ run_areas # <<>>
    /\ \E j, k \in DOMAIN run_results :
          /\ run_results[j].auth.called
          /\ Len(CallsTo(run_results[j], AuthPrimitives)) = 2
          /\ run_results[k].auth.called
          /\ run_results[k].calls = <<>>
          /\ run_results[k].auth.error_messages[1].text = "Service key not found"

\* The authenticated read of the result failed for a missing key / because
\* a primitive of the authentication raised.
FailedForMissingKey(r) ==
    r.mode = "authenticated" /\ InSomeArea(r.selected) /\ ~HasBothKeys(r.selected)
FailedForRaise(r) ==
    /\ r.mode = "authenticated"
    /\ \E i \in DOMAIN r.calls :
          r.calls[i].op \in AuthPrimitives /\ r.calls[i].answer.kind = "error"

\* C12: a group whose authenticated read fails for an absent system or
\* service key has authentication_status failed_missing_keys, one whose
\* key-derivation or mutual-authentication primitive raised has
\* failed_error, and both have success = false and block_count = 0.
C12_AsStated ==
    \A k \in DOMAIN run_results :
       LET r == run_results[k]
       IN /\ FailedForMissingKey(r) =>
                /\ r.used_keys.authentication_status = "failed_missing_keys"
                /\ ~r.success /\ r.block_count = 0
          /\ FailedForRaise(r) =>
                /\ r.used_keys.authentication_status = "failed_error"
                /\ ~r.success /\ r.block_count = 0

C12_Witness ==
    \E k \in DOMAIN run_results :
       /\ FailedForMissingKey(run_results[k])
       /\ run_results[k].auth.error_messages[1].text = "Service key not found"
       /\ run_results[k].used_keys.authentication_status = "failed_error"
       /\ run_results[k].output_lines[1].text = "Authentication/read failed"

\* C13: a group all of whose members need authentication, whose attempted
\* code lies in an area, whose system and service key are in the key table
\* and whose two authentication primitives succeed, is read with the
\* authenticated block-read primitive at service index 0 and ends with
\* success = true and authentication_status = successful.
C13_AsStated ==
    \A k \in DOMAIN run_results :
       LET r == run_results[k]
       IN (/\ \A i \in DOMAIN r.service_codes : r.service_codes[i] % 2 = 0
           /\ InSomeArea(r.selected) /\ HasBothKeys(r.selected)
           /\ Len(CallsTo(r, AuthPrimitives)) = 2
           /\ \A i \in DOMAIN r.calls : r.calls[i].answer.kind # "error")
          => /\ CallsTo(r, {"read_blocks"}) # <<>>
             /\ \A i \in DOMAIN r.calls :
                   r.calls[i].op = "read_blocks" => r.calls[i].index = 0
             /\ r.success
             /\ r.used_keys.authentication_status = "successful"

C13_Witness ==
    \E k \in DOMAIN run_results :
       /\ run_results[k].auth.called
       /\ run_results[k].auth.success
       /\ run_results[k].calls[2].op = "mutual_authentication"
       /\ run_results[k].calls[2].answer.kind = "ok"
       /\ CallsTo(run_results[k], ReadPrimitives) = <<>>
       /\ ~run_results[k].success
       /\ run_results[k].used_keys.authentication_status = "failed_error"

\* The last member of a group with bit 0 set.
LastOdd(g) ==
    g[CHOOSE i \in DOMAIN g :
         g[i] % 2 = 1 /\ \A j \in DOMAIN g : g[j] % 2 = 1 => j <= i]

\* The result was produced in plain mode for the code: every call is a
\* plain read of it and block 0 was asked for.
PlainFor(r, code) ==
    /\ r.mode = "plain" /\ r.selected = code /\ ~r.auth.called
    /\ r.calls # <<>>
    /\ \A i \in DOMAIN r.calls :
          /\ r.calls[i].op = "read_without_encryption"
          /\ Len(r.calls[i].service_codes) = 1
          /\ r.calls[i].service_codes[1].number * 64
                + r.calls[i].service_codes[1].attribute = code

\* The result was produced in authenticated mode for the code:
\* authenticate_service was called for it and no plain read was made.
AuthenticatedFor(r, code) ==
    /\ r.mode = "authenticated" /\ r.selected = code /\ r.auth.called
    /\ CallsTo(r, {"read_without_encryption"}) = <<>>
    /\ \A i \in DOMAIN r.calls :
          r.calls[i].op = "mutual_authentication" => r.calls[i].service_codes = <<code>>

\* C14: a group of several members is read in plain mode through its last
\* member with bit 0 set when it has one, and otherwise authentication is
\* attempted for its first member; a single-member group takes plain mode
\* iff bit 0 of its code is set and authenticated mode otherwise.
C14_ModeDecision ==
    \A k \in DOMAIN run_results :
       LET r == run_results[k]
           g == r.service_codes
           odd == \E i \in DOMAIN g : g[i] % 2 = 1
       IN /\ Len(g) > 1 /\ odd => PlainFor(r, LastOdd(g))
          /\ Len(g) > 1 /\ ~odd => AuthenticatedFor(r, g[1])
          /\ Len(g) = 1 => /\ g[1] % 2 = 1 <=> PlainFor(r, g[1])
                           /\ g[1] % 2 = 0 <=> AuthenticatedFor(r, g[1])

C14_Witness ==
    /\ \E k \in DOMAIN run_results :
          /\ run_results[k].service_codes = <<9, 11, 8>>
          /\ run_results[k].selected = 11
          /\ run_results[k].mode = "plain"

\* The positions of the log that belong to the group at position `order`.
LogOf(order) == {i \in DOMAIN run_log : run_log[i].order = order}

\* C15: in a run the reset-authentication primitive is called once for each
\* group attempted, after every call made for the groups before it and
\* before every authentication or read call made for the group itself.
C15_ResetBeforeGroup ==
    /\ \A i, j \in DOMAIN run_log : i < j => run_log[i].order <= run_log[j].order
    /\ \A order \in 1..run_done :
          \E i \in LogOf(order) :
             /\ run_log[i].call.op = "reset_authentication"
             /\ \A j \in LogOf(order) \ {i} :
                   i < j /\ run_log[j].call.op # "reset_authentication"

C15_Witness ==
    /\ run_done = 2
    /\ Len(run_log) = 6
    /\ run_log[2].call.op = "generate_service_keys"
    /\ run_log[3].call.op = "mutual_authentication"
    /\ run_log[4].call.op = "reset_authentication"
    /\ run_log[4].order = 2
    /\ run_log[6].call.op = "mutual_authentication"

\* The groups of the run in the order the two loops take them.
ProcessingOrder == run_no_auth \o run_auth

\* C16: whatever the authentication and block-read primitives do,
\* process_service_group returns a result for every group of a run and
\* never raises, so a run yields exactly one result per group, and a failed
\* group is followed by the results of the groups after it.
C16_OneResultPerGroup ==
    /\ ~run_raised
    /\ runpc # "aborted"
    /\ Len(run_results) = run_done
    /\ \A order \in 1..run_done :
          \E k \in DOMAIN run_results :
             /\ run_results[k].order = order
             /\ run_results[k].service_codes = ProcessingOrder[order]
             /\ ~run_results[k].raised
             /\ \A l \in DOMAIN run_results : run_results[l].order = order => l = k
    /\ runpc = "done" =>
          /\ run_done = Len(ProcessingOrder)
          /\ Len(Flatten(ProcessingOrder)) = Len(run_services)

C16_Witness ==
    /\ runpc = "done"
    /\ Len(run_results) = 3
    /\ \E j, k \in DOMAIN run_results :
          /\ run_results[j].order = 2
          /\ ~run_results[j].success
          /\ run_results[j].calls # <<>>
          /\ run_results[j].calls[Len(run_results[j].calls)].answer.kind = "error"
          /\ run_results[k].order = 3

\* The read calls of a result and how many of them got a full block.
ReadCalls(r) == CallsTo(r, ReadPrimitives)
FullAnswers(r) ==
    Cardinality({i \in DOMAIN ReadCalls(r) :
                   /\ ReadCalls(r)[i].answer.kind = "data"
                   /\ ReadCalls(r)[i].answer.len >=
                         (IF ReadCalls(r)[i].op = "read_blocks" THEN 1 ELSE BlockLength)})

\* C17: when a block-read primitive raises something other than the
\* protocol command error while a group is read, the group's result has
\* success = false and a message; when it raises the protocol command error,
\* at block 0 too, the result has success = true and the count of the blocks
\* read before it.
C17_AsStated ==
    \A k \in DOMAIN run_results :
       LET r == run_results[k]
       IN /\ (\E i \in DOMAIN ReadCalls(r) : ReadCalls(r)[i].answer.kind = "error") =>
                /\ ~r.success
                /\ \E l \in DOMAIN r.output_lines : r.output_lines[l].text # "Block"
          /\ (\E i \in DOMAIN ReadCalls(r) :
                 ReadCalls(r)[i].answer.kind = "command_error") =>
                /\ r.success
                /\ r.block_count = FullAnswers(r)

C17_Witness ==
    \E k \in DOMAIN run_results :
       /\ run_results[k].mode = "plain"
       /\ Len(run_results[k].calls) = 1
       /\ run_results[k].calls[1].answer.kind = "error"
       /\ run_results[k].success
       /\ run_results[k].block_count = 0
       /\ run_results[k].output_lines =
             <<Line("Failed to read without authentication", NoArg)>>

\* The groups of the run's services, those with an odd member first, each
\* part in the order the grouper lists them.
GroupHasOdd(g) == \E i \in DOMAIN g : g[i] % 2 = 1
ExpectedNoAuth ==
    SelectSeq(group_overlapped_services(run_services), GroupHasOdd)
ExpectedAuth ==
    SelectSeq(group_overlapped_services(run_services), LAMBDA g : ~GroupHasOdd(g))
ExpectedOrder == ExpectedNoAuth \o ExpectedAuth

\* C21: in a run every group of the no_auth bucket is attempted before any
\* group of the auth bucket, each bucket in its input order, so that no
\* key-derivation or mutual-authentication call is logged before every
\* no_auth group has had its read call.
C21_NoAuthBeforeAuth ==
    /\ \A k \in DOMAIN run_results :
          run_results[k].service_codes = ExpectedOrder[run_results[k].order]
    /\ \A i \in DOMAIN run_log :
          run_log[i].call.op \in AuthPrimitives =>
             /\ run_log[i].order > Len(ExpectedNoAuth)
             /\ \A j \in DOMAIN run_log :
                   run_log[j].order <= Len(ExpectedNoAuth) => j < i
             /\ \A n \in 1..Len(ExpectedNoAuth) :
                   \E j \in 1..(i - 1) :
                      /\ run_log[j].order = n
                      /\ run_log[j].call.op = "read_without_encryption"

C21_Witness ==
    /\ ExpectedNoAuth # <<>>
    /\ ~GroupHasOdd(group_overlapped_services(run_services)[1])
    /\ \E i \in DOMAIN run_log : run_log[i].call.op = "mutual_authentication"

\* The areas of the run that hold the code, in list order, and in the order
\* authenticate_service walks them.
Holders(code) ==
    SelectSeq(run_areas, LAMBDA a : a[1] <= code /\ code <= a[2])
Chain(code) == SortedBy(ContainingAreas(code, run_areas), ByStart)
Starts(as) == [i \in DOMAIN as |-> as[i][1]]
Ascending(s) == \A i, j \in DOMAIN s : i < j => s[i] <= s[j]
OuterToInner(chain) ==
    \A i, j \in DOMAIN chain :
       i < j => chain[i][1] <= chain[j][1] /\ chain[j][2] <= chain[i][2]
ProperlyNested(chain) ==
    \A i, j \in DOMAIN chain :
       i # j => /\ chain[i][1] # chain[j][1]
                /\ \/ chain[i][1] <= chain[j][1] /\ chain[j][2] <= chain[i][2]
                   \/ chain[j][1] <= chain[i][1] /\ chain[i][2] <= chain[j][2]

\* The mutual-authentication calls of a result pass one service code, the
\* selected one, and the start codes of exactly its containing areas in
\* ascending order, areas of equal start in list order.
AreaCodesSortedByStart(r) ==
    \A i \in DOMAIN r.calls :
       r.calls[i].op = "mutual_authentication" =>
          /\ r.calls[i].service_codes = <<r.selected>>
          /\ BagOfSeq(r.calls[i].area_codes) = BagOfSeq(Starts(Holders(r.selected)))
          /\ Ascending(r.calls[i].area_codes)
          /\ r.calls[i].area_codes = Starts(Chain(r.selected))
          /\ \A start \in Range(r.calls[i].area_codes) :
                SelectSeq(Chain(r.selected), LAMBDA a : a[1] = start)
                   = SelectSeq(Holders(r.selected), LAMBDA a : a[1] = start)

\* C22 as stated: the area codes passed to mutual authentication are the
\* start codes of exactly the containing areas, ascending, one service code is
\* passed, and in that order each area contains every area after it.
C22_AsStated ==
    \A k \in DOMAIN run_results :
       /\ AreaCodesSortedByStart(run_results[k])
       /\ CallsTo(run_results[k], {"mutual_authentication"}) # <<>> =>
             OuterToInner(Chain(run_results[k].selected))

\* C22: the area codes passed to mutual authentication are the start codes
\* of exactly the containing areas, ascending with areas of equal start in
\* list order, and one service code is passed; when the containing areas are
\* nested in one another with pairwise distinct starts, each area of that
\* order contains every area after it.
C22_OuterToInnerWhenNested ==
    \A k \in DOMAIN run_results :
       /\ AreaCodesSortedByStart(run_results[k])
       /\ /\ CallsTo(run_results[k], {"mutual_authentication"}) # <<>>
          /\ ProperlyNested(Chain(run_results[k].selected))
          => OuterToInner(Chain(run_results[k].selected))

C22_Witness ==
    /\ Len(run_areas) = 2
    /\ run_areas[1][1] > run_areas[2][1]
    /\ \E k \in DOMAIN run_results :
          /\ ProperlyNested(Chain(run_results[k].selected))
          /\ \E i \in DOMAIN run_results[k].calls :
                /\ run_results[k].calls[i].op = "mutual_authentication"
                /\ Len(run_results[k].calls[i].area_codes) = 2

\* The containing areas of a code that have a key in the table, and those
\* that have none, in chain order.
WithKey(code) == SelectSeq(Chain(code), LAMBDA a : a[1] \in DOMAIN run_keys)
WithoutKey(code) == SelectSeq(Chain(code), LAMBDA a : a[1] \notin DOMAIN run_keys)

\* C23: for a code in some area whose system and service key are known, a
\* containing area without a key adds one warning and nothing else: the
\* key-derivation primitive is called with the keys of the areas that have
\* one, in chain order, mutual authentication is called with the start of
\* every containing area, and authentication succeeds when both return.
C23_MissingAreaKeyTolerated ==
    \A k \in DOMAIN run_results :
       LET r == run_results[k]
           derive == CallsTo(r, {"generate_service_keys"})
           mutual == CallsTo(r, {"mutual_authentication"})
           found == WithKey(r.selected)
           missing == WithoutKey(r.selected)
       IN r.auth.called /\ InSomeArea(r.selected) /\ HasBothKeys(r.selected) =>
            /\ Len(derive) = 1
            /\ derive[1].key_input.area_keys =
                  [i \in DOMAIN found |-> run_keys[found[i][1]].key_value]
            /\ SelectSeq(r.auth.error_messages, LAMBDA m : m.text = "No key for area")
                  = [i \in DOMAIN missing |-> Line("No key for area", missing[i][1])]
            /\ derive[1].answer.kind = "ok" =>
                  /\ Len(mutual) = 1
                  /\ mutual[1].area_codes = Starts(Chain(r.selected))
                  /\ mutual[1].answer.kind = "ok" => r.auth.success

C23_Witness ==
    \E k \in DOMAIN run_results :
       /\ run_results[k].auth.called
       /\ run_results[k].auth.success
       /\ WithoutKey(run_results[k].selected) # <<>>
       /\ WithKey(run_results[k].selected) # <<>>
       /\ Len(CallsTo(run_results[k], {"mutual_authentication"})[1].area_codes) = 2

(***************************************************************************)
(* Area-hierarchy builder: TextOutputManager._build_area_hierarchy and     *)
(* TextOutputManager._assign_service_groups_to_areas                       *)
(***************************************************************************)
\* The longest area list and the longest group list given to the builder.
MaxAreas == 3
MaxHierGroups == 2

HierAreas == {<<0, 255>>, <<16, 32>>, <<0, 9>>, <<1, 4>>, <<2, 5>>, <<2, 3>>}
HierGroups == {<<3, 2>>, <<9, 8>>, <<17, 16>>, <<300>>}

\* No area: the parent of a root (None).
NoArea == <<NoArg, NoArg>>

\* key=lambda a: (a[0], (a[1] - a[0]), a[1])
ByStartSpanEnd(a, b) ==
    \/ a[1] < b[1]
    \/ a[1] = b[1] /\ a[2] - a[1] < b[2] - b[1]
    \/ a[1] = b[1] /\ a[2] - a[1] = b[2] - b[1] /\ a[2] < b[2]

\* key=lambda a: (a[1] - a[0], a[0], a[1])
BySpanStartEnd(a, b) ==
    \/ a[2] - a[1] < b[2] - b[1]
    \/ a[2] - a[1] = b[2] - b[1] /\ a[1] < b[1]
    \/ a[2] - a[1] = b[2] - b[1] /\ a[1] = b[1] /\ a[2] < b[2]

\* The keys of a dict built from a list, in insertion order.
RECURSIVE DictKeys(_)
DictKeys(s) ==
    IF s = <<>> THEN <<>>
    ELSE LET front == DictKeys(SubSeq(s, 1, Len(s) - 1))
         IN IF s[Len(s)] \in Range(front) THEN front ELSE Append(front, s[Len(s)])

\* Faulty variant: the last containing candidate wins, whatever its span.
CandidateLoopBodyLast(st, current, candidate) ==
    IF candidate = current THEN st
    ELSE IF candidate[1] <= current[1] /\ current[2] <= candidate[2]
         THEN [found |-> TRUE, best_parent |-> candidate,
               smallest_size |-> candidate[2] - candidate[1]]
         ELSE st

\* Faulty variant: `current` is not skipped among its own candidates.
CandidateLoopBodyWithSelf(st, current, candidate) ==
    IF candidate[1] <= current[1] /\ current[2] <= candidate[2]
    THEN LET candidate_size == candidate[2] - candidate[1]
         IN IF ~st.found \/ candidate_size < st.smallest_size
            THEN [found |-> TRUE, best_parent |-> candidate,
                  smallest_size |-> candidate_size]
            ELSE st
    ELSE st

\* One iteration of the inner loop over the candidates of `current`.
CandidateLoopBody(st, current, candidate) ==
    IF candidate = current THEN st
    ELSE IF candidate[1] <= current[1] /\ current[2] <= candidate[2]
         THEN LET candidate_size == candidate[2] - candidate[1]
              IN IF ~st.found \/ candidate_size < st.smallest_size
                 THEN [found |-> TRUE, best_parent |-> candidate,
                       smallest_size |-> candidate_size]
                 ELSE st
         ELSE st

RECURSIVE CandidateLoop(_, _, _)
CandidateLoop(st, current, candidates) ==
    IF candidates = <<>> THEN st
    ELSE CandidateLoop(CandidateLoopBody(st, current, Head(candidates)), current,
                       Tail(candidates))

\* One iteration of the outer loop: find the parent of `current`, link it.
AreaLoopBody(nodes, current, sorted_areas) ==
    LET st == CandidateLoop([found |-> FALSE, best_parent |-> NoArea,
                             smallest_size |-> 0], current, sorted_areas)
    IN IF st.found
       THEN [nodes EXCEPT ![current].parent = st.best_parent,
                          ![st.best_parent].children = Append(@, current)]
       ELSE nodes

RECURSIVE AreaLoop(_, _, _)
AreaLoop(nodes, rest, sorted_areas) ==
    IF rest = <<>> THEN nodes
    ELSE AreaLoop(AreaLoopBody(nodes, Head(rest), sorted_areas), Tail(rest),
                  sorted_areas)

\* Returns (nodes, root_areas).
_build_area_hierarchy(areas_) ==
    IF areas_ = <<>> THEN [nodes |-> EmptyMap, root_areas |-> <<>>]
    ELSE LET fresh == [area \in Range(areas_) |->
                          [children |-> <<>>, groups |-> <<>>, parent |-> NoArea]]
             sorted_areas == SortedBy(areas_, ByStartSpanEnd)
             linked == AreaLoop(fresh, sorted_areas, sorted_areas)
             nodes == [area \in DOMAIN linked |->
                          [linked[area] EXCEPT
                             !.children = SortedBy(@, ByStartSpanEnd)]]
         IN [nodes |-> nodes,
             root_areas |-> SortedBy(
                 SelectSeq(DictKeys(areas_), LAMBDA area : nodes[area].parent = NoArea),
                 ByStartSpanEnd)]

\* min(candidates, key=...): the first smallest candidate.
MinBy(candidates, Less(_, _)) == SortedBy(candidates, Less)[1]

\* Faulty variant: a group is given to the widest containing area.
AssignTargetWidest(candidates) ==
    SortedBy(candidates, LAMBDA a, b : BySpanStartEnd(b, a))[1]

\* target = min(candidates, key=lambda a: (a[1] - a[0], a[0], a[1]))
AssignTarget(candidates) == MinBy(candidates, BySpanStartEnd)

\* One iteration of the loop over the service groups.
AssignLoopBody(st, group, area_keys) ==
    IF group = <<>> THEN st
    ELSE LET primary == CHOOSE m \in Range(group) : \A c \in Range(group) : m <= c
             candidates == SelectSeq(area_keys,
                               LAMBDA area : area[1] <= primary /\ primary <= area[2])
         IN IF candidates = <<>>
            THEN [st EXCEPT !.unassigned = Append(@, group)]
            ELSE [st EXCEPT !.nodes[AssignTarget(candidates)].groups = Append(@, group)]

RECURSIVE AssignLoop(_, _, _)
AssignLoop(st, groups, area_keys) ==
    IF groups = <<>> THEN st
    ELSE AssignLoop(AssignLoopBody(st, Head(groups), area_keys), Tail(groups),
                    area_keys)

\* Returns the unassigned groups; `nodes` is area_nodes as the call leaves it.
\* area_keys is the iteration order of the dict: the areas as first listed.
_assign_service_groups_to_areas(nodes, area_keys, service_groups_) ==
    IF DOMAIN nodes = {} THEN [nodes |-> nodes, unassigned |-> service_groups_]
    ELSE AssignLoop([nodes |-> nodes, unassigned |-> <<>>], service_groups_, area_keys)

(***************************************************************************)
(* Area-hierarchy builder: state machine                                   *)
(***************************************************************************)
HierIdle ==
    /\ h_areas = <<>>
    /\ h_groups = <<>>
    /\ area_nodes = EmptyMap
    /\ root_areas = <<>>
    /\ unassigned_groups = <<>>
    /\ hpc = "idle"

HierInit ==
    /\ h_areas \in SeqsUpTo(HierAreas, MaxAreas)
    /\ h_groups \in SeqsUpTo(HierGroups, MaxHierGroups)
    /\ area_nodes = EmptyMap
    /\ root_areas = <<>>
    /\ unassigned_groups = <<>>
    /\ hpc = "input"

BuildHierarchy ==
    /\ hpc = "input"
    /\ LET built == _build_area_hierarchy(h_areas)
       IN /\ area_nodes' = built.nodes
          /\ root_areas' = built.root_areas
    /\ hpc' = "built"
    /\ UNCHANGED <<h_areas, h_groups, unassigned_groups, notHierVars>>

AssignGroups ==
    /\ hpc = "built"
    /\ LET assigned == _assign_service_groups_to_areas(area_nodes, DictKeys(h_areas),
                                                       h_groups)
       IN /\ area_nodes' = assigned.nodes
          /\ unassigned_groups' = assigned.unassigned
    /\ hpc' = "assigned"
    /\ UNCHANGED <<h_areas, h_groups, root_areas, notHierVars>>

HierNext ==
    \/ BuildHierarchy
    \/ AssignGroups

(***************************************************************************)
(* AuthenticationHandler.requires_authentication: state machine            *)
(***************************************************************************)
\* Every 16-bit service code.
AllServiceCodes == 0..(DISCOVERY_LIMIT - 1)

RaIdle ==
    /\ ra_code = 0
    /\ ra_ret = FALSE
    /\ rapc = "idle"

RaInit ==
    /\ ra_code \in AllServiceCodes
    /\ ra_ret = FALSE
    /\ rapc = "call"

RequiresAuthentication ==
    /\ rapc = "call"
    /\ ra_ret' = requires_authentication(ra_code)
    /\ rapc' = "done"
    /\ UNCHANGED <<ra_code, notRaVars>>

RaNext == RequiresAuthentication

(***************************************************************************)
(* Area-hierarchy builder: properties                                      *)
(***************************************************************************)
Span(a) == a[2] - a[1]

\* The areas of the list, other than `a`, whose range holds the range of `a`.
Containers(a) ==
    {c \in Range(h_areas) : c # a /\ c[1] <= a[1] /\ a[2] <= c[2]}

\* The areas of the list whose range holds the code.
AreasHolding(code) == {c \in Range(h_areas) : c[1] <= code /\ code <= c[2]}

\* The area of a non-empty set with the smallest span, equal spans ordered
\* by start and then by end.
Narrowest(S) ==
    CHOOSE c \in S :
       \A d \in S \ {c} :
          \/ Span(c) < Span(d)
          \/ Span(c) = Span(d) /\ c[1] < d[1]
          \/ Span(c) = Span(d) /\ c[1] = d[1] /\ c[2] < d[2]

\* C18: in the hierarchy built from a list of areas, the parent of an area is
\* the smallest-span other area whose range holds it, equal spans ordered by
\* start and then end, and an area that no other area holds is a root; of
\* [(0x0000,0x00FF),(0x0010,0x0020)] the second is the child of the first.
C18_SmallestContainingParent ==
    hpc \in {"built", "assigned"} =>
       /\ DOMAIN area_nodes = Range(h_areas)
       /\ \A a \in Range(h_areas) :
             IF Containers(a) = {}
             THEN area_nodes[a].parent = NoArea /\ a \in Range(root_areas)
             ELSE /\ area_nodes[a].parent = Narrowest(Containers(a))
                  /\ a \notin Range(root_areas)
                  /\ a \in Range(area_nodes[Narrowest(Containers(a))].children)
       /\ h_areas = <<<<0, 255>>, <<16, 32>>>> =>
             /\ area_nodes[<<16, 32>>].parent = <<0, 255>>
             /\ area_nodes[<<0, 255>>].children = <<<<16, 32>>>>
             /\ root_areas = <<<<0, 255>>>>

C18_Witness ==
    /\ hpc = "built"
    /\ h_areas = <<<<2, 5>>, <<2, 3>>, <<1, 4>>>>
    /\ area_nodes[<<2, 3>>].parent = <<1, 4>>
    /\ root_areas = <<<<1, 4>>, <<2, 5>>>>

\* How often a value occurs in a list.
Occurrences(seq, v) == Cardinality({i \in DOMAIN seq : seq[i] = v})

\* The least member of a group.
LeastCode(g) == CHOOSE m \in Range(g) : \A c \in Range(g) : m <= c

\* C19: every service group handed to the builder is placed exactly once:
\* in the groups list of the smallest-span area holding its least member
\* code (equal spans ordered by start and then end), or in the unassigned
\* bucket when no area holds that code; nothing is dropped, doubled or
\* placed under an area that does not hold the code.
C19_GroupsPlacedOnce ==
    hpc = "assigned" =>
       /\ \A g \in Range(h_groups) :
             LET holding == AreasHolding(LeastCode(g))
             IN /\ Occurrences(unassigned_groups, g) =
                      (IF holding = {} THEN Occurrences(h_groups, g) ELSE 0)
                /\ \A a \in DOMAIN area_nodes :
                      Occurrences(area_nodes[a].groups, g) =
                         (IF holding # {} /\ a = Narrowest(holding)
                          THEN Occurrences(h_groups, g) ELSE 0)
       /\ Range(unassigned_groups) \subseteq Range(h_groups)
       /\ \A a \in DOMAIN area_nodes :
             Range(area_nodes[a].groups) \subseteq Range(h_groups)

C19_Witness ==
    /\ hpc = "assigned"
    /\ h_areas = <<<<0, 9>>, <<2, 5>>, <<1, 4>>>>
    /\ h_groups = <<<<3, 2>>, <<300>>>>
    /\ area_nodes[<<1, 4>>].groups = <<<<3, 2>>>>
    /\ area_nodes[<<2, 5>>].groups = <<>>
    /\ unassigned_groups = <<<<300>>>>

\* The area reached from `a` by following parent links, NoArea when a root
\* is not reached within `fuel` links.
RECURSIVE Climb(_, _)
Climb(a, fuel) ==
    IF area_nodes[a].parent = NoArea THEN a
    ELSE IF fuel = 0 THEN NoArea
    ELSE Climb(area_nodes[a].parent, fuel - 1)

\* The parent links and children lists form a forest over the listed areas.
IsForest ==
    /\ DOMAIN area_nodes = Range(h_areas)
    /\ \A a \in DOMAIN area_nodes :
          /\ area_nodes[a].parent \in DOMAIN area_nodes \cup {NoArea}
          /\ \A p \in DOMAIN area_nodes :
                Occurrences(area_nodes[p].children, a) =
                   (IF area_nodes[a].parent = p THEN 1 ELSE 0)
          /\ Climb(a, Cardinality(DOMAIN area_nodes)) # NoArea
          /\ Occurrences(root_areas, Climb(a, Cardinality(DOMAIN area_nodes))) = 1
    /\ \A a \in DOMAIN area_nodes :
          Occurrences(root_areas, a) = (IF area_nodes[a].parent = NoArea THEN 1 ELSE 0)
    /\ Range(root_areas) \subseteq DOMAIN area_nodes

\* C28 as stated: for any list of area ranges the hierarchy built is a
\* forest: no cycle, at most one parent per area, each area with a parent
\* exactly once in the children of that parent and in no other list, each
\* area under exactly one root.
C28_AsStated == hpc \in {"built", "assigned"} => IsForest

\* C28: for any list of pairwise distinct area ranges the hierarchy built
\* is a forest: no cycle, at most one parent per area, each area with a
\* parent exactly once in the children of that parent and in no other list,
\* each area under exactly one root.
C28_ForestOfDistinctAreas ==
    hpc \in {"built", "assigned"} /\ PairwiseDistinct(h_areas) => IsForest

C28_Witness ==
    /\ hpc = "built"
    /\ h_areas = <<<<2, 3>>, <<0, 255>>, <<0, 9>>>>
    /\ area_nodes[<<2, 3>>].parent = <<0, 9>>
    /\ area_nodes[<<0, 9>>].parent = <<0, 255>>
    /\ area_nodes[<<0, 255>>].children = <<<<0, 9>>>>
    /\ root_areas = <<<<0, 255>>>>

(***************************************************************************)
(* AuthenticationHandler.requires_authentication: properties               *)
(***************************************************************************)
\* C20: for every 16-bit service code, requires_authentication answers true
\* exactly when bit 0 of the code is 0.
C20_RequiresAuthenticationIffBit0Clear ==
    rapc = "done" => (ra_ret <=> (ra_code \div 2) * 2 = ra_code)

C20_Witness ==
    /\ rapc = "done"
    /\ ra_code = DISCOVERY_LIMIT - 2
    /\ ra_ret

(***************************************************************************)
(* Specifications                                                          *)
(***************************************************************************)
\* Every component but the named one is idle.
IdleBut(c) ==
    /\ c = "group" \/ GroupIdle
    /\ c = "keys" \/ KeyIdle
    /\ c = "discover" \/ DiscIdle
    /\ c = "key_versions" \/ KvIdle
    /\ c = "read" \/ ReadIdle
    /\ c = "run" \/ RunIdle
    /\ c = "hierarchy" \/ HierIdle
    /\ c = "requires_authentication" \/ RaIdle

GroupSpecInit == GroupInit /\ IdleBut("group")
SpecGroup == GroupSpecInit /\ [][GroupNext]_vars

KeySpecInit == KeyInit /\ IdleBut("keys")
SpecKeys == KeySpecInit /\ [][KeyNext]_vars

DiscSpecInit == DiscInit /\ IdleBut("discover")
SpecDiscover == DiscSpecInit /\ [][DiscNext]_vars

DiscEndlessSpecInit == DiscEndlessInit /\ IdleBut("discover")
SpecDiscoverEndless == DiscEndlessSpecInit /\ [][DiscNext]_vars

KvSpecInit == KvInit /\ IdleBut("key_versions")
SpecKeyVersions == KvSpecInit /\ [][KvNext]_vars

ReadSpecInit == ReadInit /\ IdleBut("read")
SpecRead == ReadSpecInit /\ [][ReadNext]_vars

RunSpecInit == RunInit /\ IdleBut("run")
SpecRun == RunSpecInit /\ [][RunNext]_vars

HierSpecInit == HierInit /\ IdleBut("hierarchy")
SpecHierarchy == HierSpecInit /\ [][HierNext]_vars

RaSpecInit == RaInit /\ IdleBut("requires_authentication")
SpecRequiresAuth == RaSpecInit /\ [][RaNext]_vars

=============================================================================
